---- MODULE Spec2Model ----
(***************************************************************************)
(* Verification model of the Sniper trading bot.                           *)
(*                                                                         *)
(*  - OrderBook (src/src/orderbook.rs): the depth replica.                 *)
(*  - MarketStream::stream (src/src/market_stream.rs): the feed task and   *)
(*    its broadcast channel.                                               *)
(*  - main (src/src/bin/backtest.rs): the order-book driver loop.          *)
(*                                                                         *)
(* Prices and quantities are f64 in the source; the model draws them from  *)
(* small ranges of naturals, on which ==, != and partial_cmp agree with    *)
(* the f64 operations.                                                     *)
(***************************************************************************)
EXTENDS Integers, Sequences, FiniteSets, TLC

\* ------------------------------------------------------------------ bounds
MaxPrice == 2
MaxQty == 2
MaxLevels == 2
MaxSeq == 2
\* feed model: highest sequence number on the wire, and how many events the
\* driver may be behind the feed task
FeedSeq == 4
MaxBacklog == 2
\* fan-out model: highest sequence number on the wire
FanoutSeq == 33
\* grid model: how many order updates and fills are handled
MaxFills == 2
\* engine model: how many steps the tasks of the engine take
MaxEngineSteps == 4
\* trend model: how many candles the detector is given
MaxCandles == 3

Prices == 1..MaxPrice
Qtys == 0..MaxQty

\* ------------------------------------------------------------------- state
VARIABLES
    bids,            \* OrderBook.bids
    asks,            \* OrderBook.asks
    last_update_id,  \* OrderBook.last_update_id
    call,            \* the last OrderBookManager call: its name, the sequence
                     \* number of its argument, the cursor it found and what
                     \* it returned
    \* the task spawned by MarketStream::stream
    fpc,             \* where the task is: "fetch", "connect", "streaming", "done"
    last_updated_id, \* its local last_updated_id
    attempt,         \* its local attempt
    retry_interval,  \* its local retry_interval, in seconds
    msg,             \* the kind of the last websocket message it read
    gap_seen,        \* an inbound event was ahead of last_updated_id + 1 and
                     \* no snapshot has been fetched since
    \* the broadcast channel between the task and the driver's stream
    chan,            \* the events sent and not yet received, oldest first
    lagged,          \* how many events were overwritten before being received
    \* main of bin/backtest.rs
    main_pc,         \* "loop" or "exited"
    snapshot_received,
    result,          \* what market_stream.next() gave last: "Ok", "Err", "None"
    to_decision,     \* the iteration went on to the decision path (line 112)
    \* the risk checks of risk_manager/mod.rs
    risk_config,     \* self: the RiskConfig
    state,           \* the AccountState argument
    req,             \* the OrderRequest argument
    risk_check,      \* the last check called and the RiskCheckResult it gave
    \* TradingBot and its PositionManager
    account_balance, \* TradingBot.account_balance
    position,        \* PositionManager.position, the Vec of open positions
    rw,              \* the RwLock around position: "free", or "write" while a
                     \* write guard is held
    trades,          \* the rows of the trades table, oldest first
    ledger_call,     \* the last TradingBot or PositionManager call: its name,
                     \* its arguments, what it returned and the requests the
                     \* BinanceClient sent in it
    \* position sizing
    sizer,           \* the PositionSizer of main.rs
    sizing,          \* the last calculate_position_size call: whose it was,
                     \* its arguments and the size it returned
    \* the grid
    grid_orders,     \* the HashMap of grid orders, client id to GridOrder
    active_orders,   \* GridStrategy.active_orders
    grid_call,       \* the last grid call: its name, its arguments, what it
                     \* returned, the requests sent to the exchange in it and
                     \* how many calls there were
    bot_state,       \* TradingEngine: the BotState in the watch channel
    last_trend,      \* start_trading_loop: last_trend
    order_tx,        \* TradingEngine: the requests in the order channel
    placed,          \* the requests given to place_order, in order
    ws_client,       \* the websocket task: "spawned", "write" (it holds
                     \* the write lock of ws_client), "free" (it returned)
    loop_pc,         \* start_trading_loop: "running" or "blocked"
    engine_call,     \* the last engine step: its name, what it returned and
                     \* how many steps there were
    detector,        \* a TrendDetector
    candle_log,      \* the candles given to the detector so far
    trend_call,      \* the last TrendDetector::update: what it returned
    signal_call,     \* the last generate_signal: its arguments and what it
                     \* returned
    bt_account,      \* main of backtest.rs: state
    decision,        \* what the last iteration of main did after the event:
                     \* the signal, the position it saw and the sides given
                     \* to place_order
    stop_call,       \* the last check_stop_loss: the account, the price and
                     \* the fraction it was given, what it returned
    ws_exchange,     \* ws_connect: "Binance" or "KuCoin"
    grid_active,     \* ws_connect: grid_active
    ws_orders,       \* ws_connect: the orders of grid_orders, each the
                     \* number of its ladder and of its level
    ws_call,         \* the last candle of ws_connect: the trend, how many
                     \* orders it gave to place_order, how many candles and
                     \* ladders there were
    update_rx,       \* TradingEngine: the orders in the update channel
    state_lock,      \* the RwLock around the state: "free", or the task
                     \* that holds its write guard
    proc_pc,         \* where the order processor and the update processor
                     \* are, and the request the update processor is sending
    io_call,         \* the last call a task awaited and the locks whose
                     \* guards the task held meanwhile
    candle_task,     \* the calls of process_candle under way: where each
                     \* is, what the analyzer yields on its candle, the
                     \* positions still to close, what it published
    exit_log,        \* the exit orders given to execute_order, with the
                     \* answer of the exchange
    signal_log,      \* the signals sent on signal_tx
    entry_log,       \* the calls of execute_entry_order: the action of the
                     \* signal, the Position built, whether it was opened
    candle_ret       \* the last process_candle that returned: what the
                     \* analyzer yielded on its candle, how many signals it
                     \* published and entries it attempted, how many calls
                     \* were started and how many returned

bookVars == <<bids, asks, last_update_id, call>>
feedVars == <<fpc, last_updated_id, attempt, retry_interval, msg, gap_seen>>
chanVars == <<chan, lagged>>
mainVars == <<main_pc, snapshot_received, result, to_decision>>
riskVars == <<risk_config, state, req, risk_check>>
ledgerVars == <<account_balance, position, rw, trades, ledger_call>>
sizerVars == <<sizer, sizing>>
gridVars == <<grid_orders, active_orders, grid_call>>
engineVars == <<bot_state, last_trend, order_tx, placed, ws_client, loop_pc,
                engine_call>>
trendVars == <<detector, candle_log, trend_call>>
signalVars == <<signal_call>>
decisionVars == <<bt_account, decision, stop_call>>
wsVars == <<ws_exchange, grid_active, ws_orders, ws_call>>
taskVars == <<update_rx, state_lock, proc_pc, io_call>>
candleVars == <<candle_task, exit_log, signal_log, entry_log, candle_ret>>
vars == <<bids, asks, last_update_id, call,
          fpc, last_updated_id, attempt, retry_interval, msg, gap_seen,
          chan, lagged,
          main_pc, snapshot_received, result, to_decision,
          risk_config, state, req, risk_check,
          account_balance, position, rw, trades, ledger_call,
          sizer, sizing,
          grid_orders, active_orders, grid_call,
          bot_state, last_trend, order_tx, placed, ws_client, loop_pc,
          engine_call,
          detector, candle_log, trend_call,
          signal_call,
          bt_account, decision,
          ws_exchange, grid_active, ws_orders, ws_call,
          update_rx, state_lock, proc_pc, io_call,
          candle_task, exit_log, signal_log, entry_log, candle_ret,
          stop_call>>

\* --------------------------------------------------------------- data types
\* orderbook.rs reads level.price and level.quantity; the struct with these
\* fields is the one of data_handling/mod.rs
OrderBookLevel(p, q) == [price |-> p, quantity |-> q]

Levels == {OrderBookLevel(p, q) : p \in Prices, q \in Qtys}

LevelLists(n) == UNION {[1..k -> Levels] : k \in 0..n}

\* an event carries at most MaxLevels levels over both sides
SidePairs ==
    {bs \in LevelLists(MaxLevels) \X LevelLists(MaxLevels) :
        Len(bs[1]) + Len(bs[2]) <= MaxLevels}

\* MarketEvent::Snapshot(DepthSnapshot)
DepthSnapshot(b, a, id) ==
    [kind |-> "Snapshot", bids |-> b, asks |-> a, last_updated_id |-> id]

\* MarketEvent::Update(DepthUpdate)
DepthUpdate(b, a, first, final) ==
    [kind |-> "Update", bids |-> b, asks |-> a,
     first_updated_id |-> first, final_update_id |-> final]

\* lastUpdateId of the exchange is positive
Snapshots == {DepthSnapshot(bs[1], bs[2], id) : bs \in SidePairs, id \in 1..MaxSeq}

\* the exchange numbers a delta with first <= final
Updates ==
    {u \in {DepthUpdate(bs[1], bs[2], f, l) :
        bs \in SidePairs, f \in 1..MaxSeq, l \in 1..MaxSeq} :
        u.first_updated_id <= u.final_update_id}

OrderBook(b, a, id) == [bids |-> b, asks |-> a, last_update_id |-> id]

\* ------------------------------------------------------ Vec helpers (std)
\* slice::sort_by is a stable sort: a level goes behind the levels that
\* compare equal to it.
\* sort_by(|a, b| b.price.partial_cmp(&a.price).unwrap()): descending
RECURSIVE insert_desc(_, _)
insert_desc(s, x) ==
    IF s = <<>> THEN <<x>>
    ELSE IF x.price > Head(s).price THEN <<x>> \o s
    ELSE <<Head(s)>> \o insert_desc(Tail(s), x)

RECURSIVE sort_desc(_)
sort_desc(s) ==
    IF s = <<>> THEN <<>>
    ELSE insert_desc(sort_desc(SubSeq(s, 1, Len(s) - 1)), s[Len(s)])

\* sort_by(|a, b| a.price.partial_cmp(&b.price).unwrap()): ascending
RECURSIVE insert_asc(_, _)
insert_asc(s, x) ==
    IF s = <<>> THEN <<x>>
    ELSE IF x.price < Head(s).price THEN <<x>> \o s
    ELSE <<Head(s)>> \o insert_asc(Tail(s), x)

RECURSIVE sort_asc(_)
sort_asc(s) ==
    IF s = <<>> THEN <<>>
    ELSE insert_asc(sort_asc(SubSeq(s, 1, Len(s) - 1)), s[Len(s)])

\* Vec::retain(|x| x.price != p)
retain_not_price(s, p) == SelectSeq(s, LAMBDA x : x.price # p)

\* Iterator::find(|x| x.price == p): index of the first match, 0 if none
find_price(s, p) ==
    IF \E i \in 1..Len(s) : s[i].price = p
    THEN CHOOSE i \in 1..Len(s) :
            s[i].price = p /\ \A j \in 1..(i - 1) : s[j].price # p
    ELSE 0

\* ---------------------------------------------------------------- OrderBook
initialize == OrderBook(<<>>, <<>>, 0)

\* variant: the cursor is only ever moved forward
apply_snapshots_monotonic(ob, snapshot) ==
    OrderBook(sort_desc(snapshot.bids),
              sort_asc(snapshot.asks),
              IF snapshot.last_updated_id > ob.last_update_id
              THEN snapshot.last_updated_id ELSE ob.last_update_id)

\* variant: the snapshot's levels are added to the levels already held
apply_snapshots_extend(ob, snapshot) ==
    OrderBook(sort_desc(ob.bids \o snapshot.bids),
              sort_asc(ob.asks \o snapshot.asks),
              snapshot.last_updated_id)

apply_snapshots(ob, snapshot) ==
    OrderBook(sort_desc(snapshot.bids),
              sort_asc(snapshot.asks),
              snapshot.last_updated_id)

\* one iteration of the loop over updates.bids
apply_bid(s, bid) ==
    IF bid.quantity = 0 THEN retain_not_price(s, bid.price)
    ELSE LET i == find_price(s, bid.price)
             t == IF i # 0 THEN [s EXCEPT ![i].quantity = bid.quantity]
                  ELSE Append(s, OrderBookLevel(bid.price, bid.quantity))
         IN  sort_desc(t)

\* one iteration of the loop over updates.asks; an existing level gets
\* existing.price = ask.price, its quantity stays
apply_ask(s, ask) ==
    IF ask.quantity = 0 THEN retain_not_price(s, ask.price)
    ELSE LET i == find_price(s, ask.price)
             t == IF i # 0 THEN [s EXCEPT ![i].price = ask.price]
                  ELSE Append(s, OrderBookLevel(ask.price, ask.quantity))
         IN  sort_asc(t)

\* for bid in updates.bids.iter() { .. }
RECURSIVE apply_bids(_, _)
apply_bids(s, changes) ==
    IF changes = <<>> THEN s
    ELSE apply_bids(apply_bid(s, Head(changes)), Tail(changes))

\* for ask in updates.asks.iter() { .. }
RECURSIVE apply_asks(_, _)
apply_asks(s, changes) ==
    IF changes = <<>> THEN s
    ELSE apply_asks(apply_ask(s, Head(changes)), Tail(changes))

\* variant: the stale test written with < instead of <=
apply_updates_strict(ob, updates) ==
    IF updates.final_update_id < ob.last_update_id
    THEN [ob |-> ob, ret |-> FALSE]
    ELSE [ob |-> OrderBook(apply_bids(ob.bids, updates.bids),
                           apply_asks(ob.asks, updates.asks),
                           updates.final_update_id),
          ret |-> TRUE]

\* returns the book after the call and the bool the call returns
apply_updates(ob, updates) ==
    IF updates.final_update_id <= ob.last_update_id
    THEN [ob |-> ob, ret |-> FALSE]
    ELSE [ob |-> OrderBook(apply_bids(ob.bids, updates.bids),
                           apply_asks(ob.asks, updates.asks),
                           updates.final_update_id),
          ret |-> TRUE]

\* self.asks.first().map_or(0.0, |ask| ask.price)
best_ask(ob) == IF ob.asks = <<>> THEN 0 ELSE Head(ob.asks).price

\* self.bids.first().map_or(0.0, |bid| bid.price)
best_bid(ob) == IF ob.bids = <<>> THEN 0 ELSE Head(ob.bids).price

\* twice the mid price, to stay in the integers
mid_price_x2(ob) == best_bid(ob) + best_ask(ob)

ob == OrderBook(bids, asks, last_update_id)

\* ------------------------------------------------------- order book actions
Call(op, seq, before, ret) ==
    [op |-> op, seq |-> seq, before |-> before, ret |-> ret]

NoCall == Call("none", 0, 0, TRUE)

InitOrderBook ==
    /\ bids = initialize.bids
    /\ asks = initialize.asks
    /\ last_update_id = initialize.last_update_id
    /\ call = NoCall

\* MarketEvent::Snapshot(snapshot) => ob.apply_snapshots(&snapshot)
ApplySnapshot(snapshot) ==
    /\ LET new == apply_snapshots(ob, snapshot) IN
        /\ bids' = new.bids
        /\ asks' = new.asks
        /\ last_update_id' = new.last_update_id
    /\ call' = Call("apply_snapshots", snapshot.last_updated_id, last_update_id, TRUE)

\* MarketEvent::Update(update) => ob.apply_updates(&update)
ApplyUpdate(updates) ==
    /\ LET r == apply_updates(ob, updates) IN
        /\ bids' = r.ob.bids
        /\ asks' = r.ob.asks
        /\ last_update_id' = r.ob.last_update_id
        /\ call' = Call("apply_updates", updates.final_update_id, last_update_id, r.ret)

\* ------------------------------------------------- MarketStream::stream
\* broadcast::channel::<MarketEvent>(20)
Capacity == 20
\* let mut retry_interval = Duration::from_secs(20)
RetrySecs == 20
\* let max_retry_interval = 5
MaxAttempt == 5
\* .min(Duration::from_secs(20))
RetryCapSecs == 20

Min(a, b) == IF a < b THEN a ELSE b

\* WsDepthEvent
WsDepthEvent(b, a, first, final) ==
    [bids |-> b, asks |-> a, first_update_id |-> first, final_update_id |-> final]

\* broadcast::channel rounds the capacity up to a power of two
RECURSIVE power_of_two_from(_, _)
power_of_two_from(p, n) == IF p >= n THEN p ELSE power_of_two_from(2 * p, n)

next_power_of_two(n) == power_of_two_from(1, n)

Slots == next_power_of_two(Capacity)

\* tx.send(e): a full channel overwrites its oldest event, and the receiver
\* that had not read it lags by one more
Send(e) ==
    IF Len(chan) < Slots
    THEN chan' = Append(chan, e) /\ lagged' = lagged
    ELSE chan' = Append(Tail(chan), e) /\ lagged' = lagged + 1

InitStream ==
    /\ fpc = "fetch"
    /\ last_updated_id = 0
    /\ attempt = 0
    /\ retry_interval = RetrySecs
    /\ msg = "none"
    /\ gap_seen = FALSE
    /\ chan = <<>>
    /\ lagged = 0

\* the snapshot request or the parse of its body fails: sleep, then break
FetchErr ==
    /\ fpc = "fetch"
    /\ fpc' = "done"
    /\ UNCHANGED <<last_updated_id, attempt, retry_interval, msg, gap_seen>>
    /\ UNCHANGED chanVars

\* the snapshot arrives: it is sent on the channel
FetchOk(snap) ==
    /\ fpc = "fetch"
    /\ last_updated_id' = snap.last_updated_id
    /\ Send(snap)
    /\ fpc' = "connect"
    /\ gap_seen' = FALSE
    /\ UNCHANGED <<attempt, retry_interval, msg>>

\* connect_async fails: sleep, then break
ConnectErr ==
    /\ fpc = "connect"
    /\ fpc' = "done"
    /\ UNCHANGED <<last_updated_id, attempt, retry_interval, msg, gap_seen>>
    /\ UNCHANGED chanVars

\* connect_async succeeds; the subscription is written
ConnectOk ==
    /\ fpc = "connect"
    /\ fpc' = "streaming"
    /\ UNCHANGED <<last_updated_id, attempt, retry_interval, msg, gap_seen>>
    /\ UNCHANGED chanVars

\* the code behind the while loop: attempt += 1, the limit test, the sleep and
\* the doubling of retry_interval
AfterWhile ==
    /\ attempt' = attempt + 1
    /\ IF attempt + 1 > MaxAttempt
       THEN fpc' = "done" /\ retry_interval' = retry_interval
       ELSE /\ fpc' = "fetch"
            /\ retry_interval' = Min(retry_interval * 2, RetryCapSecs)

\* Ok(Message::Text(txt)) that parses to a WsDepthEvent
WsText(evt) ==
    /\ fpc = "streaming"
    /\ msg' = "Text"
    /\ gap_seen' = (gap_seen \/ evt.first_update_id > last_updated_id + 1)
    /\ IF evt.first_update_id <= last_updated_id
       THEN UNCHANGED <<fpc, last_updated_id, attempt, retry_interval>>
            /\ UNCHANGED chanVars
       ELSE IF last_updated_id + 1 <= evt.final_update_id
       THEN /\ last_updated_id' = evt.final_update_id
            /\ LET update == DepthUpdate(<<>>, <<>>, evt.first_update_id,
                                         evt.final_update_id)
               IN  IF evt.first_update_id > last_updated_id' + 1
                   THEN AfterWhile /\ UNCHANGED chanVars
                   ELSE Send(update) /\ UNCHANGED <<fpc, attempt, retry_interval>>
       ELSE UNCHANGED <<fpc, last_updated_id, attempt, retry_interval>>
            /\ UNCHANGED chanVars

\* Ok(Message::Ping(_)): a Pong is written
WsPing ==
    /\ fpc = "streaming"
    /\ msg' = "Ping"
    /\ UNCHANGED <<fpc, last_updated_id, attempt, retry_interval, gap_seen>>
    /\ UNCHANGED chanVars

\* a text that does not parse, Ok(_) or Err(e): nothing is done
WsIgnored(kind) ==
    /\ fpc = "streaming"
    /\ msg' = kind
    /\ UNCHANGED <<fpc, last_updated_id, attempt, retry_interval, gap_seen>>
    /\ UNCHANGED chanVars

\* read.next() gives None: the while loop ends
WsEnd ==
    /\ fpc = "streaming"
    /\ msg' = "None"
    /\ AfterWhile
    /\ UNCHANGED <<last_updated_id, gap_seen>>
    /\ UNCHANGED chanVars

\* ------------------------------------------- strategy.rs, strategy/mod.rs
\* MarketData { price, bids, asks }: a level is <<price, quantity>>
MarketData(price, market_bids, market_asks) ==
    [price |-> price, bids |-> market_bids, asks |-> market_asks]

\* TradeState { imbalance_threshold, ema_value }; the threshold in percent
TradeState(imbalance_threshold, ema_value) ==
    [imbalance_threshold |-> imbalance_threshold, ema_value |-> ema_value]

\* iter().take(depth)
take(levels, depth) == SubSeq(levels, 1, Min(depth, Len(levels)))

\* map(|x| x[1]).sum()
RECURSIVE sum_quantity(_)
sum_quantity(levels) ==
    IF levels = <<>> THEN 0 ELSE levels[1][2] + sum_quantity(Tail(levels))

\* map(|(p, q)| p * q).sum()
RECURSIVE sum_notional(_)
sum_notional(levels) ==
    IF levels = <<>> THEN 0
    ELSE levels[1][1] * levels[1][2] + sum_notional(Tail(levels))

\* (bid_pressure - ask_pressure) / (bid_pressure + ask_pressure) > limit / 100;
\* 0 / 0 is NaN and every comparison with it is false
imbalance_above(bid_pressure, ask_pressure, limit) ==
    /\ bid_pressure + ask_pressure > 0
    /\ (bid_pressure - ask_pressure) * 100 > limit * (bid_pressure + ask_pressure)

imbalance_below(bid_pressure, ask_pressure, limit) ==
    /\ bid_pressure + ask_pressure > 0
    /\ (bid_pressure - ask_pressure) * 100 < limit * (bid_pressure + ask_pressure)

\* strategy.rs, <TradeState as StrategyManager>::generate_signal
StrategyManager_generate_signal(self, market, depth) ==
    LET bid_pressure == sum_quantity(take(market.bids, depth))
        ask_pressure == sum_quantity(take(market.asks, depth))
    IN  IF /\ imbalance_above(bid_pressure, ask_pressure, self.imbalance_threshold)
           /\ market.price > self.ema_value
        THEN "BUY"
        ELSE IF /\ imbalance_below(bid_pressure, ask_pressure,
                                   -self.imbalance_threshold)
                /\ market.price < self.ema_value
        THEN "SELL"
        ELSE "HOLD"

\* strategy/mod.rs, TradeState::generate_signal
TradeState_generate_signal(self, market, depth) ==
    LET bid_pressure == sum_notional(take(market.bids, depth))
        ask_pressure == sum_notional(take(market.asks, depth))
    IN  IF /\ imbalance_below(bid_pressure, ask_pressure, self.imbalance_threshold)
           /\ market.price < self.ema_value
        THEN "BUY"
        ELSE IF /\ imbalance_above(bid_pressure, ask_pressure,
                                   -self.imbalance_threshold)
                /\ market.price > self.ema_value
        THEN "SELL"
        ELSE "HOLD"

SignalCall(fn, self, market, depth, ret) ==
    [fn |-> fn, self |-> self, market |-> market, depth |-> depth, ret |-> ret]

\* the TradeState, the MarketData and the depth of the calls to come
InitSignal(self, market, depth) ==
    signal_call = SignalCall("none", self, market, depth, "none")

\* trade.generate_signal(&md, depth) of strategy.rs
GenerateSignal(self, market, depth) ==
    signal_call' = SignalCall("StrategyManager::generate_signal", self, market,
                              depth,
                              StrategyManager_generate_signal(self, market, depth))

\* generate_signal(&md, depth) of strategy/mod.rs
GenerateSignalMod(self, market, depth) ==
    signal_call' = SignalCall("TradeState::generate_signal", self, market, depth,
                              TradeState_generate_signal(self, market, depth))

\* ------------------------------------ bin/backtest.rs, the decision path
\* AccountState { current_position, max_position, entry_price }; positions in
\* thousandths
BacktestAccount(current_position, max_position, entry_price) ==
    [current_position |-> current_position, max_position |-> max_position,
     entry_price |-> entry_price]

\* risk_manager.rs, AccountState::check_stop_loss: both comparisons are
\* dropped
check_stop_loss(self, current_price, stop_loss_pct) ==
    IF self.current_position > 0 THEN TRUE
    ELSE IF self.current_position < 0 THEN TRUE
    ELSE FALSE

\* trade.stop_loss, 0.01, in percent
trade_stop_loss == 1

StopCall(account, price, pct, ret, n) ==
    [account |-> account, price |-> price, pct |-> pct, ret |-> ret, n |-> n]

\* state.check_stop_loss(price, trade.stop_loss) on the account
stop_loss_call(account, price, n) ==
    StopCall(account, price, trade_stop_loss,
             check_stop_loss(account, price, trade_stop_loss), n)

\* update_indicators on md: md is never assigned after its let, so every
\* price is md.price, and the mean and the EMA of a constant series is it
update_indicators(self, market) == [self EXCEPT !.ema_value = market.price]

\* data_config.depth_levels
depth_levels == 15

Decision(signal, held, sides) ==
    [signal |-> signal, position |-> held, placed |-> sides]

\* lines 112-212 of one iteration: the account afterwards and what the
\* iteration did; req_side is req.side, exe what place_order returned
decide(account, trade, market, req_side, exe) ==
    IF check_stop_loss(account, market.price, trade_stop_loss)
          /\ account.current_position # 0
    THEN [account |-> account,
          decision |-> Decision("stop_loss", account.current_position,
                                <<req_side>>)]
    ELSE LET signal == StrategyManager_generate_signal(
                           update_indicators(trade, market), market, depth_levels)
             position_size == Min(account.max_position - account.current_position,
                                  market.quantity)
         IN  IF signal = "BUY" /\ account.current_position < account.max_position
             THEN [account |->
                       IF exe = "BUY"
                       THEN [account EXCEPT
                               !.current_position = @ + position_size,
                               !.entry_price = market.price]
                       ELSE account,
                   decision |-> Decision(signal, account.current_position,
                                         <<"BUY">>)]
             ELSE IF signal = "SELL" /\ account.current_position > 0
             THEN [account |->
                       IF exe = "SELL"
                       THEN [account EXCEPT !.current_position = 0]
                       ELSE account,
                   decision |-> Decision(signal, account.current_position,
                                         <<"SELL">>)]
             ELSE IF signal = "HOLD"
             THEN [account |-> account,
                   decision |-> Decision(signal, account.current_position,
                                         <<req_side>>)]
             ELSE [account |-> account,
                   decision |-> Decision(signal, account.current_position, <<>>)]

\* the trade state, the request and the market data of main
main_trade == TradeState(20, 0)

main_md == [price |-> 0, quantity |-> 0, bids |-> <<>>, asks |-> <<>>]

InitDecision ==
    /\ bt_account = BacktestAccount(0, 1, 0)
    /\ decision = Decision("none", 0, <<>>)
    /\ stop_call = StopCall(BacktestAccount(0, 1, 0), 0, 0, FALSE, 0)

\* the rest of the iteration: nothing after a continue, the decision path
\* otherwise
DecisionPath(reached) ==
    IF reached
    THEN \E exe \in {"BUY", "SELL", "HOLD"} :
            LET r == decide(bt_account, main_trade, main_md, "HOLD", exe) IN
            /\ bt_account' = r.account
            /\ decision' = r.decision
            /\ stop_call' = stop_loss_call(bt_account, main_md.price, 1)
    ELSE /\ bt_account' = bt_account
         /\ decision' = Decision("none", bt_account.current_position, <<>>)
         /\ stop_call' = stop_call

\* --------------------------------------------------- main of bin/backtest.rs
InitMain ==
    /\ main_pc = "loop"
    /\ snapshot_received = FALSE
    /\ result = "none"
    /\ to_decision = FALSE
    /\ InitDecision

\* market_stream.next() gives Ok(event): the match on the event and the test
\* of line 101
MainOk ==
    /\ main_pc = "loop"
    /\ lagged = 0
    /\ chan # <<>>
    /\ chan' = Tail(chan)
    /\ lagged' = lagged
    /\ result' = "Ok"
    /\ LET e == Head(chan) IN
       IF e.kind = "Snapshot"
       THEN /\ ApplySnapshot(e)
            /\ snapshot_received' = TRUE
            /\ to_decision' = (bids' # <<>> /\ asks' # <<>>)
       ELSE /\ ApplyUpdate(e)
            /\ snapshot_received' = snapshot_received
            /\ to_decision' = (/\ call'.ret
                               /\ snapshot_received
                               /\ bids' # <<>>
                               /\ asks' # <<>>)
    /\ DecisionPath(to_decision')
    /\ UNCHANGED <<main_pc>>
    /\ UNCHANGED feedVars

\* market_stream.next() gives Err (the receiver lagged): sleep, then
\* market_stream = data_config.stream(), a new channel and a new task; the
\* arm has no continue
MainErr ==
    /\ main_pc = "loop"
    /\ lagged > 0
    /\ result' = "Err"
    /\ to_decision' = TRUE
    /\ DecisionPath(TRUE)
    /\ fpc' = "fetch"
    /\ last_updated_id' = 0
    /\ attempt' = 0
    /\ retry_interval' = RetrySecs
    /\ msg' = "none"
    /\ gap_seen' = FALSE
    /\ chan' = <<>>
    /\ lagged' = 0
    /\ UNCHANGED <<main_pc, snapshot_received>>
    /\ UNCHANGED bookVars

\* market_stream.next() gives None (the task ended and dropped tx): the while
\* loop of main ends
MainEnd ==
    /\ main_pc = "loop"
    /\ lagged = 0
    /\ chan = <<>>
    /\ fpc = "done"
    /\ main_pc' = "exited"
    /\ result' = "None"
    /\ UNCHANGED <<snapshot_received, to_decision>>
    /\ UNCHANGED decisionVars
    /\ UNCHANGED bookVars
    /\ UNCHANGED feedVars
    /\ UNCHANGED chanVars

\* ------------------------------------------------- risk_manager/mod.rs
\* struct OrderRequest
OrderRequest(entry_price, quantity, stop_loss, side) ==
    [entry_price |-> entry_price, quantity |-> quantity,
     stop_loss |-> stop_loss, side |-> side]

\* struct AccountState; check_* read current_position, max_position and
\* account_balance only
AccountState(current_position, max_position, balance) ==
    [current_position |-> current_position, max_position |-> max_position,
     account_balance |-> balance]

\* struct RiskConfig
RiskConfig(max_position_pct, warn_position_pct, max_drawdown_pct, max_potential_loss) ==
    [max_position_pct |-> max_position_pct,
     warn_position_pct |-> warn_position_pct,
     max_drawdown_pct |-> max_drawdown_pct,
     max_potential_loss |-> max_potential_loss]

\* (num / den) * 100.0 > limit in f64, for a finite limit: x / 0.0 is +inf
\* for x > 0, -inf for x < 0 and NaN for x = 0, and NaN > limit is false
pct_exceeds(num, den, limit) ==
    IF den > 0 THEN num * 100 > limit * den
    ELSE IF den < 0 THEN num * 100 < limit * den
    ELSE num > 0

\* variant: only a negative quantity refused
check_quantity_negative(self, r) ==
    IF r.quantity < 0 THEN "REJECTED" ELSE "PASSED"

\* RiskConfig::check_quantity
check_quantity(self, r) ==
    IF r.quantity <= 0 THEN "REJECTED" ELSE "PASSED"

\* RiskConfig::check_balance
check_balance(self, st, r) ==
    IF st.account_balance <= 0 THEN "REJECTED" ELSE "PASSED"

\* variant: the percentage tested against warn_position_pct first
check_position_warn_first(self, st, r) ==
    LET total_potential_position == st.current_position + r.quantity
        position_value == total_potential_position * r.entry_price
    IN  IF total_potential_position > st.max_position THEN "REJECTED"
        ELSE IF pct_exceeds(position_value, st.account_balance, self.warn_position_pct)
        THEN "WARNING"
        ELSE IF pct_exceeds(position_value, st.account_balance, self.max_position_pct)
        THEN "REJECTED"
        ELSE "PASSED"

\* RiskConfig::check_position
check_position(self, st, r) ==
    LET total_potential_position == st.current_position + r.quantity
        position_value == total_potential_position * r.entry_price
    IN  IF total_potential_position > st.max_position THEN "REJECTED"
        ELSE IF pct_exceeds(position_value, st.account_balance, self.max_position_pct)
        THEN "REJECTED"
        ELSE IF pct_exceeds(position_value, st.account_balance, self.warn_position_pct)
        THEN "WARNING"
        ELSE "PASSED"

\* let default_max_loss_pct = 20.0
default_max_loss_pct == 20

\* RiskConfig::check_drawdown
check_drawdown(self, st, r) ==
    IF r.stop_loss # 0
    THEN LET potential_loss_per_unit ==
                 IF r.side = "BUY" THEN r.entry_price - r.stop_loss
                 ELSE r.stop_loss - r.entry_price
             total_potential_loss == potential_loss_per_unit * r.quantity
         IN  IF pct_exceeds(total_potential_loss, st.account_balance, self.max_drawdown_pct)
             THEN "REJECTED" ELSE "PASSED"
    ELSE LET total_potential_position == st.current_position + r.quantity
             position_value == total_potential_position * r.entry_price
             potential_loss == position_value * (default_max_loss_pct * 100)
         IN  IF potential_loss > self.max_potential_loss
             THEN "REJECTED" ELSE "PASSED"

\* the requests, accounts and configurations the checks are called with
OrderRequests ==
    {OrderRequest(100, q, sl, side) :
        q \in {-1, 0, 1, 2}, sl \in {0, 98, 102}, side \in {"BUY", "SELL"}}

AccountStates ==
    {AccountState(cur, 2, bal) : cur \in {0, 1}, bal \in {-100, 0, 100, 200}}

RiskConfigs ==
    {RiskConfig(150, warn, dd, 250000) : warn \in {50, 150, 250}, dd \in {1, 3}}

RiskCheck(fn, ret) == [fn |-> fn, ret |-> ret]

\* a RiskConfig, an AccountState and an OrderRequest are built; no check has
\* been called
InitRisk(self, st, r) ==
    /\ risk_config = self
    /\ state = st
    /\ req = r
    /\ risk_check = RiskCheck("none", "none")

CheckQuantity ==
    /\ risk_check' = RiskCheck("check_quantity", check_quantity(risk_config, req))
    /\ UNCHANGED <<risk_config, state, req>>

CheckBalance ==
    /\ risk_check' = RiskCheck("check_balance", check_balance(risk_config, state, req))
    /\ UNCHANGED <<risk_config, state, req>>

CheckPosition ==
    /\ risk_check' = RiskCheck("check_position", check_position(risk_config, state, req))
    /\ UNCHANGED <<risk_config, state, req>>

CheckDrawdown ==
    /\ risk_check' = RiskCheck("check_drawdown", check_drawdown(risk_config, state, req))
    /\ UNCHANGED <<risk_config, state, req>>

\* ------------------------------------------------- position_manager.rs
\* Position { id, symbol, entry_price, size, position_side, take_profit,
\* stop_loss }; opened_at is never read
Position(id, symbol, entry_price, size, position_side, take_profit, stop_loss) ==
    [id |-> id, symbol |-> symbol, entry_price |-> entry_price, size |-> size,
     position_side |-> position_side, take_profit |-> take_profit,
     stop_loss |-> stop_loss]

\* a row of the trades table after save_order: status 'open'; exit_price and
\* pnl are NULL, written 0 here and read only in rows with status 'closed'
TradeRow(p) ==
    [trade_id |-> p.id, status |-> "open", exit_price |-> 0, pnl |-> 0]

\* Database::save_order: the INSERT fails when the database does (db_ok is
\* false) or when trade_id, declared UNIQUE, is already in the table
save_order(tr, p, db_ok) ==
    IF ~db_ok \/ (\E i \in 1..Len(tr) : tr[i].trade_id = p.id)
    THEN [trades |-> tr, ret |-> "Err"]
    ELSE [trades |-> Append(tr, TradeRow(p)), ret |-> "Ok"]

\* variant: the position pushed before save_order is awaited
open_position_push_first(positions, tr, lock, p, db_ok) ==
    IF p.entry_price = 0 \/ p.size = 0
    THEN [position |-> positions, trades |-> tr, ret |-> "Ok"]
    ELSE LET saved == save_order(tr, p, db_ok) IN
         IF lock = "write"
         THEN [position |-> positions, trades |-> saved.trades, ret |-> "Pending"]
         ELSE [position |-> Append(positions, p), trades |-> saved.trades,
               ret |-> saved.ret]

\* PositionManager::open_position: the Vec and the table after the call and
\* what the call returned; "Pending" when self.position.write() never
\* completes because a write guard is held
open_position(positions, tr, lock, p, db_ok) ==
    IF p.entry_price = 0 \/ p.size = 0
    THEN [position |-> positions, trades |-> tr, ret |-> "Ok"]
    ELSE LET saved == save_order(tr, p, db_ok) IN
         IF saved.ret = "Err"
         THEN [position |-> positions, trades |-> tr, ret |-> "Err"]
         ELSE IF lock = "write"
         THEN [position |-> positions, trades |-> saved.trades, ret |-> "Pending"]
         ELSE [position |-> Append(positions, p), trades |-> saved.trades,
               ret |-> "Ok"]

\* the test check_positions makes on one position
triggered(p, current_price) ==
    IF p.position_side = "Long"
    THEN current_price <= p.stop_loss \/ current_price >= p.take_profit
    ELSE current_price >= p.stop_loss \/ current_price <= p.take_profit

\* variant: the symbol of the position not compared
RECURSIVE check_positions_any_symbol(_, _, _)
check_positions_any_symbol(positions, current_price, symbol) ==
    IF positions = <<>> THEN <<>>
    ELSE LET p == Head(positions)
             rest == check_positions_any_symbol(Tail(positions), current_price, symbol)
         IN  IF triggered(p, current_price)
             THEN <<<<p.id, current_price, p.position_side>>>> \o rest
             ELSE rest

\* PositionManager::check_positions: the Vec to_close
RECURSIVE check_positions(_, _, _)
check_positions(positions, current_price, symbol) ==
    IF positions = <<>> THEN <<>>
    ELSE LET p == Head(positions)
             rest == check_positions(Tail(positions), current_price, symbol)
         IN  IF p.symbol # symbol THEN rest
             ELSE IF triggered(p, current_price)
             THEN <<<<p.id, current_price, p.position_side>>>> \o rest
             ELSE rest

\* PositionManager::new(Decimal::new(2, 2), db): risk_per_trade, in percent
risk_per_trade == 2

Abs(x) == IF x < 0 THEN -x ELSE x

\* PositionManager::calculate_position_size; the balances and prices drawn
\* make the Decimal quotient an integer
calculate_position_size(balance, entry_price, stop_loss) ==
    LET risk_per_unit == Abs(entry_price - stop_loss) IN
    IF risk_per_unit = 0 THEN 0
    ELSE (balance * risk_per_trade) \div (100 * risk_per_unit)

\* ----------------------------------------------------------- engine.rs
\* the fields of Signal that execute_entry_order reads
Signal(id, symbol, action, price) ==
    [id |-> id, symbol |-> symbol, action |-> action, price |-> price]

\* a request of the BinanceClient: the POST of place_market_order or the
\* DELETE of cancel_orders, with the id and the size of the OrderReq
Request(kind, id, size) == [kind |-> kind, id |-> id, size |-> size]

\* (take_profit, stop_loss) of execute_entry_order; the prices drawn make
\* the Decimal products integers
take_profit(price, position_side) ==
    IF position_side = "Long" THEN (price * 104) \div 100
    ELSE (price * 96) \div 100

stop_loss(price, position_side) ==
    IF position_side = "Long" THEN (price * 98) \div 100
    ELSE (price * 102) \div 100

LedgerCall(op, id, symbol, price, size, ret, to_close, sent) ==
    [op |-> op, id |-> id, symbol |-> symbol, price |-> price, size |-> size,
     ret |-> ret, to_close |-> to_close, sent |-> sent]

\* TradingBot::new and PositionManager::new
InitLedger(initial_balance) ==
    /\ account_balance = initial_balance
    /\ position = <<>>
    /\ rw = "free"
    /\ trades = <<>>
    /\ ledger_call = LedgerCall("none", "", "", 0, 0, "none", <<>>, <<>>)

\* position_manager.open_position(position, manual)
OpenPosition(p, db_ok) ==
    LET r == open_position(position, trades, rw, p, db_ok) IN
    /\ position' = r.position
    /\ trades' = r.trades
    /\ ledger_call' = LedgerCall("open_position", p.id, p.symbol, p.entry_price,
                                 p.size, r.ret, <<>>, <<>>)
    /\ UNCHANGED <<account_balance, rw>>

\* position_manager.check_positions(current_price, symbol); the call waits
\* for ever in self.position.read() when a write guard is held
CheckPositions(current_price, symbol) ==
    /\ ledger_call' =
          IF rw = "write"
          THEN LedgerCall("check_positions", "", symbol, current_price, 0,
                          "Pending", <<>>, <<>>)
          ELSE LedgerCall("check_positions", "", symbol, current_price, 0, "Ok",
                          check_positions(position, current_price, symbol), <<>>)
    /\ UNCHANGED <<account_balance, position, rw, trades>>

\* position_manager.close_positions(position_id, exit_price): the call takes
\* the write guard of self.position and, holding it, awaits has_positions,
\* which awaits self.position.read(); a tokio RwLock gives no read guard
\* while a write guard is held, so the call never gets past line 77 and
\* the guard is never dropped
ClosePositions(position_id, exit_price) ==
    /\ rw' = "write"
    /\ ledger_call' = LedgerCall("close_positions", position_id, "", exit_price,
                                 0, "Pending", <<>>, <<>>)
    /\ UNCHANGED <<account_balance, position, trades>>

\* TradingBot::execute_entry_order(signal, position_side, OrderType::Market)
\* on a balance, a Vec of positions, a trades table and a lock: what they are
\* afterwards, what the call returned, the requests sent and the Position
\* built; cancel_ok, place_ok and db_ok are what the exchange and the
\* database answer
execute_entry_order(balance, positions, tr, lock, signal, position_side, cancel_ok, place_ok, db_ok) ==
    LET tp == take_profit(signal.price, position_side)
        sl == stop_loss(signal.price, position_side)
        position_size == calculate_position_size(balance, signal.price, sl)
        p == Position(signal.id, signal.symbol, signal.price, position_size,
                      position_side, tp, sl)
        cancel == IF position_size <= 0
                  THEN <<Request("cancel", signal.id, position_size)>> ELSE <<>>
        order == Request("order", signal.id, position_size)
        done(ps, rows, ret, sent) ==
            [position |-> ps, trades |-> rows, ret |-> ret, sent |-> sent,
             p |-> p]
    IN
    IF position_size <= 0 /\ ~cancel_ok
    THEN \* self.binance_client.cancel_orders(&order).await?
         done(positions, tr, "Err", cancel)
    ELSE IF position_size = 0
    THEN \* place_market_order refuses size zero; the Err is logged
         done(positions, tr, "Ok", cancel)
    ELSE IF ~place_ok
    THEN done(positions, tr, "Ok", cancel \o <<order>>)
    ELSE LET r == open_position(positions, tr, lock, p, db_ok) IN
         done(r.position, r.trades, r.ret, cancel \o <<order>>)

\* a call of execute_entry_order on the TradingBot
ExecuteEntryOrder(signal, position_side, cancel_ok, place_ok, db_ok) ==
    LET r == execute_entry_order(account_balance, position, trades, rw, signal,
                                 position_side, cancel_ok, place_ok, db_ok)
    IN  /\ UNCHANGED <<account_balance, rw>>
        /\ position' = r.position
        /\ trades' = r.trades
        /\ ledger_call' = LedgerCall("execute_entry_order", signal.id,
                                     signal.symbol, signal.price, r.p.size,
                                     r.ret, <<>>, r.sent)

\* ------------------------------------------------- main.rs, PositionSizer
\* struct PositionSizer; risk_per_trade in percent
PositionSizer(balance, risk_pct) ==
    [account_balance |-> balance, risk_per_trade |-> risk_pct]

Min2(a, b) == IF a < b THEN a ELSE b

\* PositionSizer::calculate_position_size; the balances, fractions and
\* prices drawn make the f64 quotients integers
PositionSizer_calculate_position_size(self, entry_price, stop) ==
    LET risk_amount == (self.account_balance * self.risk_per_trade) \div 100
        stop_distance == Abs(entry_price - stop)
    IN  IF stop_distance = 0 THEN 0
        ELSE Min2(risk_amount \div stop_distance, self.account_balance \div 10)

Sizing(fn, balance, risk_pct, entry_price, stop, ret) ==
    [fn |-> fn, account_balance |-> balance, risk_per_trade |-> risk_pct,
     entry_price |-> entry_price, stop_loss |-> stop, ret |-> ret]

\* PositionSizer::init(account_balance, risk_per_trade)
InitSizer(balance, risk_pct) ==
    /\ sizer = PositionSizer(balance, risk_pct)
    /\ sizing = Sizing("none", 0, 0, 0, 0, 0)

\* sizer.calculate_position_size(entry_price, stop_loss)
SizerCalculate(entry_price, stop) ==
    /\ sizing' = Sizing("PositionSizer", sizer.account_balance,
                        sizer.risk_per_trade, entry_price, stop,
                        PositionSizer_calculate_position_size(sizer, entry_price, stop))
    /\ UNCHANGED sizer

\* position_manager.calculate_position_size(account_balance, entry_price,
\* stop_loss)
ManagerCalculate(balance, entry_price, stop) ==
    /\ sizing' = Sizing("PositionManager", balance, risk_per_trade, entry_price,
                        stop, calculate_position_size(balance, entry_price, stop))
    /\ UNCHANGED sizer

\* ------------------------------------- strategy/grid_strategy.rs, exchange
\* GridOrder { client_oid, level, side, status }; levels in 1/10000
GridOrder(client_oid, level, side, status) ==
    [client_oid |-> client_oid, level |-> level, side |-> side, status |-> status]

opposite(side) == IF side = "Buy" THEN "Sell" ELSE "Buy"

\* HashMap::insert
insert(map, key, value) ==
    [k \in DOMAIN map \cup {key} |-> IF k = key THEN value ELSE map[k]]

\* the OrderReq given to place_order: id, side and price
GridRequest(id, side, price) == [id |-> id, side |-> side, price |-> price]

\* let next_level = if opposite_side == "Sell" { order.level * 1.01 } else
\* { order.level * 0.99 }
next_level_of(level, opposite_side) ==
    IF opposite_side = "Sell" THEN (level * 101) \div 100
    ELSE (level * 99) \div 100

\* KuCoinAuth::handle_market_data_kc(ordermap, data, symbol): the map after
\* the call, the requests sent, and whether the call panicked (an unwrap on
\* None or the todo!() of the status match)
handle_market_data_kc(ordermap, status, place_ok) ==
    IF "client_oid" \notin DOMAIN ordermap \/ "side" \notin DOMAIN ordermap
          \/ status \notin {"new", "filled", "rejected"}
    THEN [ordermap |-> ordermap, sent |-> <<>>, ret |-> "panic"]
    ELSE LET client_oid == ordermap["client_oid"].client_oid
             side == ordermap["side"].side
         IN  IF status \in {"new", "filled"} /\ client_oid \in DOMAIN ordermap
             THEN LET order == ordermap[client_oid]
                      next_level == next_level_of(order.level, opposite(side))
                      r == GridRequest(client_oid, side, next_level)
                  IN  IF place_ok
                      THEN [ordermap |-> insert(ordermap, client_oid,
                                                GridOrder(client_oid, next_level, side,
                                                          IF status = "new" THEN "New"
                                                          ELSE "Filled")),
                            sent |-> <<r>>, ret |-> "done"]
                      ELSE [ordermap |-> ordermap, sent |-> <<r>>, ret |-> "done"]
             ELSE [ordermap |-> ordermap, sent |-> <<>>, ret |-> "done"]

\* GridStrategy.grid_spacing, in percent
grid_spacing == 1

\* GridStrategy::update_grid_on_fill(filled_order); oid is the new uuid
update_grid_on_fill(orders, filled_order, oid) ==
    LET kept == SelectSeq(orders, LAMBDA o : o.client_oid # filled_order.client_oid)
        opposite_side == opposite(filled_order.side)
        next_level == IF opposite_side = "Buy"
                      THEN (filled_order.level * (100 - grid_spacing)) \div 100
                      ELSE (filled_order.level * (100 + grid_spacing)) \div 100
        opposite_order == GridOrder(oid, next_level, opposite_side, "New")
    IN  [active_orders |-> Append(kept, opposite_order), ret |-> opposite_order]

GridCall(op, status, side, level, ret, sent, n) ==
    [op |-> op, status |-> status, side |-> side, level |-> level, ret |-> ret,
     sent |-> sent, n |-> n]

\* a map of grid orders and a GridStrategy::new
InitGrid(ordermap) ==
    /\ grid_orders = ordermap
    /\ active_orders = <<>>
    /\ grid_call = GridCall("none", "", "", 0, "none", <<>>, 0)

\* self.handle_market_data_kc(&mut grid_orders, data, &req.symbol), data
\* carrying the status; the order the call works on is recorded
HandleMarketDataKc(status, place_ok) ==
    LET r == handle_market_data_kc(grid_orders, status, place_ok)
        found == /\ "client_oid" \in DOMAIN grid_orders
                 /\ grid_orders["client_oid"].client_oid \in DOMAIN grid_orders
        order == grid_orders[grid_orders["client_oid"].client_oid]
    IN  /\ grid_orders' = r.ordermap
        /\ grid_call' = GridCall("handle_market_data_kc", status,
                                 IF found THEN order.side ELSE "",
                                 IF found THEN order.level ELSE 0,
                                 r.ret, r.sent, grid_call.n + 1)
        /\ UNCHANGED active_orders

\* strategy.update_grid_on_fill(&filled_order); the replacement is recorded
\* as the request of the call
UpdateGridOnFill(filled_order, oid) ==
    LET r == update_grid_on_fill(active_orders, filled_order, oid) IN
    /\ active_orders' = r.active_orders
    /\ grid_call' = GridCall("update_grid_on_fill", filled_order.status,
                             filled_order.side, filled_order.level, "done",
                             <<GridRequest(r.ret.client_oid, r.ret.side, r.ret.level)>>,
                             grid_call.n + 1)
    /\ UNCHANGED grid_orders

\* ------------------------------------------------------ trading_engine.rs
BotState(trend, open_orders) == [trend |-> trend, open_orders |-> open_orders]

\* the receivers of the watch channel of the state: _state_rx is dropped at
\* the end of TradingEngine::new and nothing subscribes
state_receivers == 0

\* watch::Sender::send: with no receiver it is an Err and the value is kept
state_send(current_state, new_state) ==
    IF state_receivers > 0 THEN new_state ELSE current_state

\* config.trading.grid_levels
grid_levels == 2

\* Uuid::new_v4(): the k-th identifier
Uuid(k) ==
    <<"g1", "g2", "g3", "g4", "g5", "g6", "g7", "g8", "g9", "g10", "g11", "g12",
      "g13", "g14", "g15", "g16">>[k]

\* GridStrategy::create_symmetric_grid(center_price), sorted
create_symmetric_grid(center_price) ==
    LET half_levels == grid_levels \div 2 IN
    [i \in 1..(2 * half_levels) |->
        IF i <= half_levels
        THEN (center_price * (100 - grid_spacing * (half_levels + 1 - i))) \div 100
        ELSE (center_price * (100 + grid_spacing * (i - half_levels))) \div 100]

\* initialize_grid(candles, SideChop) then generate_grid_orders: one order
\* per level, Buy below the centre; k identifiers were drawn before
generate_grid_orders(candles, k) ==
    IF candles = <<>> THEN <<>>
    ELSE LET center_price == candles[Len(candles)].close
             levels == create_symmetric_grid(center_price)
         IN  [i \in 1..Len(levels) |->
                 GridOrder(Uuid(k + i), levels[i],
                           IF levels[i] < center_price THEN "Buy" ELSE "Sell",
                           "New")]

\* the OrderReq built from a grid order
order_req(order) == GridRequest(order.client_oid, order.side, order.level)

\* the cancel_req of every order of status New
cancel_reqs(open_orders) ==
    LET news == SelectSeq(open_orders, LAMBDA o : o.status = "New") IN
    [i \in 1..Len(news) |-> order_req(news[i])]

EngineCall(op, ret, n) == [op |-> op, ret |-> ret, n |-> n]

\* TradingEngine::new(config, exchange, trend) with the orders of the store
InitEngine(trend, existing_orders) ==
    /\ bot_state = BotState(trend, existing_orders)
    /\ last_trend = "SideChop"
    /\ order_tx = <<>>
    /\ placed = <<>>
    /\ ws_client = "spawned"
    /\ loop_pc = "running"
    /\ engine_call = EngineCall("none", "none", 0)

\* the engine with queued in the order channel: requests the trading loop
\* sent and the order processor has not received yet
InitEngineQueued(trend, existing_orders, queued) ==
    /\ bot_state = BotState(trend, existing_orders)
    /\ last_trend = "SideChop"
    /\ order_tx = queued
    /\ placed = <<>>
    /\ ws_client = "spawned"
    /\ loop_pc = "running"
    /\ engine_call = EngineCall("none", "none", 0)

\* the task of start_websocket: it takes the write lock of ws_client and,
\* once connected and subscribed, loops forever holding it
StartWebsocket(connect_ok) ==
    /\ ws_client = "spawned"
    /\ ws_client' = IF connect_ok THEN "write" ELSE "free"
    /\ engine_call' = EngineCall("start_websocket",
                                 IF connect_ok THEN "Pending" ELSE "Err",
                                 engine_call.n + 1)
    /\ UNCHANGED <<bot_state, last_trend, order_tx, placed, loop_pc>>

\* one request of the task of start_order_processor
OrderProcessor(place_ok) ==
    /\ order_tx # <<>>
    /\ LET order_request == Head(order_tx)
           grid_order == GridOrder(order_request.id, order_request.price,
                                   order_request.side, "New")
       IN  /\ order_tx' = Tail(order_tx)
           /\ placed' = Append(placed, order_request)
           /\ bot_state' =
                 IF place_ok
                 THEN state_send(bot_state,
                                 [bot_state EXCEPT
                                    !.open_orders = Append(@, grid_order)])
                 ELSE bot_state
    /\ engine_call' = EngineCall("order_processor",
                                 IF place_ok THEN "Ok" ELSE "Err",
                                 engine_call.n + 1)
    /\ UNCHANGED <<last_trend, ws_client, loop_pc>>

\* TradingEngine::update_trend(trend)
UpdateTrend(trend) ==
    /\ bot_state' = state_send(bot_state, [bot_state EXCEPT !.trend = trend])
    /\ engine_call' = EngineCall("update_trend",
                                 IF state_receivers > 0 THEN "Ok" ELSE "Err",
                                 engine_call.n + 1)
    /\ UNCHANGED <<last_trend, order_tx, placed, ws_client, loop_pc>>

\* one iteration of the loop of start_trading_loop; candles is what
\* get_candles gives (a VecDeque read as a Vec)
TradingLoop(candles) ==
    /\ loop_pc = "running"
    /\ LET current_state == bot_state
           changed == current_state.trend # last_trend
           cancels == IF /\ changed
                         /\ current_state.trend \in {"UpTrend", "DownTrend"}
                         /\ last_trend = "SideChop"
                      THEN cancel_reqs(current_state.open_orders)
                      ELSE <<>>
           generate == /\ current_state.trend = "SideChop"
                       /\ current_state.open_orders = <<>>
           new_orders == generate_grid_orders(candles, grid_levels * engine_call.n)
       IN  /\ last_trend' = IF changed THEN current_state.trend ELSE last_trend
           /\ IF generate /\ ws_client = "write"
              THEN /\ loop_pc' = "blocked"
                   /\ order_tx' = order_tx \o cancels
              ELSE /\ loop_pc' = "running"
                   /\ order_tx' =
                         IF generate
                         THEN order_tx \o cancels
                                 \o [i \in 1..Len(new_orders) |-> order_req(new_orders[i])]
                         ELSE order_tx \o cancels
           /\ engine_call' = EngineCall("trading_loop",
                                        IF generate /\ ws_client = "write"
                                        THEN "Pending" ELSE "sleep",
                                        engine_call.n + 1)
    /\ UNCHANGED <<bot_state, placed, ws_client>>

\* ----------------------------------------------------------- indicator.rs
\* TrendDetector::new(fast_period, slow_period, atr_period, k_atr): an alpha
\* is 2 / (period + 1), kept as its period; k_atr is in tenths; atr starts at
\* alpha_atr, below one price unit, and the first update overwrites it
\* before anything reads it
TrendDetector_new(fast_period, slow_period, atr_period, k_atr) ==
    [fast_period |-> fast_period, slow_period |-> slow_period,
     atr_period |-> atr_period, ema_slow |-> 0, ema_fast |-> 0,
     prev_closed |-> 0, atr |-> 0, initialized |-> FALSE, k_atr |-> k_atr]

Candle(high, low, close) == [high |-> high, low |-> low, close |-> close]

Max2(a, b) == IF a >= b THEN a ELSE b

\* update, the branch of a detector that is not initialized
update_first(self, c) ==
    [self EXCEPT !.ema_fast = c.close, !.ema_slow = c.close,
                 !.atr = Abs(c.high - c.low), !.prev_closed = c.close]

\* update, the branch of an initialized detector
update_next(self, c) ==
    LET atr == Max2(Max2(c.high - c.low, Abs(c.high - self.prev_closed)),
                    Abs(c.low - self.prev_closed))
    IN  [self EXCEPT
            !.ema_slow = @ + (2 * (c.close - @)) \div (self.slow_period + 1),
            !.ema_fast = @ + (2 * (c.close - @)) \div (self.fast_period + 1),
            !.atr = @ + (2 * Abs(atr - @)) \div (self.atr_period + 1),
            !.prev_closed = c.close]

\* diff > k_atr * atr.max(1e-9), for a diff and an atr that are whole price
\* units: under the floor the threshold is k_atr * 1e-9, within one unit of 0
above_threshold(diff, k_atr, atr) ==
    IF atr > 0 THEN diff * 10 > k_atr * atr
    ELSE IF k_atr >= 0 THEN diff > 0 ELSE diff >= 0

\* the trend of update from the values after the branch
classify(self) ==
    LET diff == self.ema_fast - self.ema_slow IN
    IF above_threshold(diff, self.k_atr, self.atr) THEN "UpTrend"
    ELSE IF above_threshold(-diff, self.k_atr, self.atr) THEN "DownTrend"
    ELSE "SideChop"

\* TrendDetector::update(c): the detector after the call and the trend
TrendDetector_update(self, c) ==
    LET after == IF ~self.initialized THEN update_first(self, c)
                 ELSE update_next(self, c)
    IN  [self |-> after, trend |-> classify(after)]

TrendCall(trend, n) == [trend |-> trend, n |-> n]

\* a detector of periods 1, 3 and 3: the alphas are 1, 1/2 and 1/2, exact on
\* the prices drawn
InitTrend(k_atr) ==
    /\ detector = TrendDetector_new(1, 3, 3, k_atr)
    /\ candle_log = <<>>
    /\ trend_call = TrendCall("none", 0)

\* trend.update(&candle)
TrendUpdate(c) ==
    LET r == TrendDetector_update(detector, c) IN
    /\ detector' = r.self
    /\ candle_log' = Append(candle_log, c)
    /\ trend_call' = TrendCall(r.trend, trend_call.n + 1)

\* ------------------------------ exchange: ws_connect, the candle messages
\* TrendDetector::compute_generic_levels(higher, lower, levels): how many
\* levels it returns; level i is lower * (higher / lower)^(i / (levels - 1))
compute_generic_levels(higher, lower, levels) ==
    IF levels = 0 \/ lower <= 0 \/ higher <= lower THEN 0 ELSE levels

\* the levels asked for in ws_connect
ladder_levels == 10

WsCall(trend, sent, n, ladders) ==
    [trend |-> trend, sent |-> sent, n |-> n, ladders |-> ladders]

InitWs(exchange) ==
    /\ ws_exchange = exchange
    /\ grid_active = FALSE
    /\ ws_orders = {}
    /\ ws_call = WsCall("none", 0, 0, 0)

\* a text message with a candle: trend.update(&candle), then the match on the
\* trend; place_ok is whether place_order succeeds for the orders of the
\* ladder, cancel_ok whether cancel_order does (the Binance client returns
\* the error of cancel_order, which ends ws_connect; the KuCoin client drops it)
WsCandle(c, place_ok, cancel_ok) ==
    LET r == TrendDetector_update(detector, c)
        center == r.self.ema_slow
        half == 4 * r.self.atr
        grid_level == compute_generic_levels(center + half, center - half,
                                             ladder_levels)
        ladder == {[ladder |-> ws_call.ladders + 1, level |-> i] :
                      i \in 1..grid_level}
    IN  /\ ws_call.trend # "Err"
        /\ TrendUpdate(c)
        /\ ws_exchange' = ws_exchange
        /\ IF r.trend = "SideChop"
           THEN IF ~grid_active
                THEN /\ ws_orders' = IF place_ok THEN ws_orders \cup ladder
                                     ELSE ws_orders
                     /\ grid_active' = (ws_exchange = "Binance")
                     /\ ws_call' = WsCall(r.trend, grid_level, ws_call.n + 1,
                                          ws_call.ladders + 1)
                ELSE /\ UNCHANGED <<ws_orders, grid_active>>
                     /\ ws_call' = WsCall(r.trend, 0, ws_call.n + 1,
                                          ws_call.ladders)
           ELSE /\ ws_call' = WsCall(IF /\ ws_exchange = "Binance"
                                            /\ grid_active /\ ws_orders # {}
                                            /\ ~cancel_ok
                                         THEN "Err" ELSE r.trend,
                                      0, ws_call.n + 1, ws_call.ladders)
                /\ IF ws_exchange = "Binance"
                   THEN IF grid_active /\ ws_orders # {} /\ ~cancel_ok
                        THEN UNCHANGED <<ws_orders, grid_active>>
                        ELSE ws_orders' = {} /\ grid_active' = FALSE
                   ELSE IF grid_active
                        THEN ws_orders' = {} /\ grid_active' = FALSE
                        ELSE UNCHANGED <<ws_orders, grid_active>>

\* --------------------------------- trading_engine.rs, the tasks step by step
\* mpsc::channel::<OrderReq>(100)
order_capacity == 100

IoCall(name, locks) == [call |-> name, locks |-> locks]

ProcPc(order, update, sending) ==
    [order |-> order, update |-> update, sending |-> sending]

\* the tasks as TradingEngine::start spawns them; updates is what the update
\* channel holds
InitTasks(updates) ==
    /\ update_rx = updates
    /\ state_lock = "free"
    /\ proc_pc = ProcPc("recv", "recv", <<>>)
    /\ io_call = IoCall("none", {})

\* the task of start_websocket, with what it awaits under the write guard of
\* ws_client
WebsocketTask(connect_ok) ==
    /\ StartWebsocket(connect_ok)
    /\ io_call' = IoCall("connect", {"ws_client"})
    /\ UNCHANGED <<update_rx, state_lock, proc_pc>>

\* the order processor: rx.recv() gives a request and place_order is awaited
OrderRecv ==
    /\ proc_pc.order = "recv"
    /\ order_tx # <<>>
    /\ order_tx' = Tail(order_tx)
    /\ placed' = Append(placed, Head(order_tx))
    /\ proc_pc' = [proc_pc EXCEPT !.order = "placing"]
    /\ io_call' = IoCall("place_order", {"order_rx"})
    /\ engine_call' = EngineCall("order_processor", "Pending", engine_call.n + 1)
    /\ UNCHANGED <<bot_state, last_trend, ws_client, loop_pc, update_rx,
                   state_lock>>

\* the order processor: place_order returned; on Ok the task awaits
\* state.write(), pushes the order and sends the state
OrderPlaced(place_ok) ==
    /\ proc_pc.order = "placing"
    /\ LET order_request == placed[Len(placed)]
           grid_order == GridOrder(order_request.id, order_request.price,
                                   order_request.side, "New")
       IN  IF ~place_ok
           THEN /\ proc_pc' = [proc_pc EXCEPT !.order = "recv"]
                /\ engine_call' = EngineCall("order_processor", "Err",
                                             engine_call.n + 1)
                /\ UNCHANGED bot_state
           ELSE IF state_lock # "free"
           THEN /\ proc_pc' = [proc_pc EXCEPT !.order = "state_write"]
                /\ engine_call' = EngineCall("order_processor", "Pending",
                                             engine_call.n + 1)
                /\ UNCHANGED bot_state
           ELSE /\ proc_pc' = [proc_pc EXCEPT !.order = "recv"]
                /\ engine_call' = EngineCall("order_processor", "Ok",
                                             engine_call.n + 1)
                /\ bot_state' = state_send(bot_state,
                                           [bot_state EXCEPT
                                              !.open_orders = Append(@, grid_order)])
    /\ UNCHANGED <<last_trend, order_tx, placed, ws_client, loop_pc, update_rx,
                   state_lock, io_call>>

\* the order processor: state.write() completes once the guard is free
OrderStateWrite ==
    /\ proc_pc.order = "state_write"
    /\ state_lock = "free"
    /\ LET order_request == placed[Len(placed)]
           grid_order == GridOrder(order_request.id, order_request.price,
                                   order_request.side, "New")
       IN  bot_state' = state_send(bot_state,
                                   [bot_state EXCEPT
                                      !.open_orders = Append(@, grid_order)])
    /\ proc_pc' = [proc_pc EXCEPT !.order = "recv"]
    /\ engine_call' = EngineCall("order_processor", "Ok", engine_call.n + 1)
    /\ UNCHANGED <<last_trend, order_tx, placed, ws_client, loop_pc, update_rx,
                   state_lock, io_call>>

\* the open orders with the entry of the updated order replaced
with_update(open_orders, updated_order) ==
    [i \in 1..Len(open_orders) |->
        IF /\ open_orders[i].client_oid = updated_order.client_oid
           /\ \A j \in 1..(i - 1) :
                 open_orders[j].client_oid # updated_order.client_oid
        THEN updated_order ELSE open_orders[i]]

\* the update processor: rx.recv() gives an order; the task takes
\* state.write(), sends the state and, for a Filled order, takes the write
\* guard of the strategy and awaits order_tx.send(order_req) with the
\* replacement, both guards alive; the send completes at once when the
\* channel has room
OrderUpdate ==
    /\ proc_pc.update = "recv"
    /\ update_rx # <<>>
    /\ state_lock = "free"
    /\ LET updated_order == Head(update_rx)
           oid == Uuid(grid_call.n + 1)
           new_order == update_grid_on_fill(active_orders, updated_order, oid).ret
       IN  /\ update_rx' = Tail(update_rx)
           /\ bot_state' = state_send(bot_state,
                                      [bot_state EXCEPT
                                         !.open_orders =
                                            with_update(@, updated_order)])
           /\ IF updated_order.status # "Filled"
              THEN /\ UNCHANGED <<order_tx, state_lock, proc_pc, io_call,
                                  gridVars>>
                   /\ engine_call' = EngineCall("order_update_processor", "Ok",
                                                engine_call.n + 1)
              ELSE /\ UpdateGridOnFill(updated_order, oid)
                   /\ io_call' = IoCall("order_tx.send",
                                        {"update_rx", "state", "grid_strategy"})
                   /\ IF Len(order_tx) < order_capacity
                      THEN /\ order_tx' = Append(order_tx, order_req(new_order))
                           /\ UNCHANGED <<state_lock, proc_pc>>
                           /\ engine_call' =
                                 EngineCall("order_update_processor", "Ok",
                                            engine_call.n + 1)
                      ELSE /\ state_lock' = "order_update_processor"
                           /\ proc_pc' =
                                 [proc_pc EXCEPT
                                    !.update = "send",
                                    !.sending = <<order_req(new_order)>>]
                           /\ engine_call' =
                                 EngineCall("order_update_processor", "Pending",
                                            engine_call.n + 1)
                           /\ UNCHANGED order_tx
    /\ UNCHANGED <<last_trend, placed, ws_client, loop_pc>>

\* the update processor: the send completes once the channel has room, and
\* the guards are dropped at the end of the iteration
OrderUpdateSent ==
    /\ proc_pc.update = "send"
    /\ Len(order_tx) < order_capacity
    /\ order_tx' = order_tx \o proc_pc.sending
    /\ state_lock' = "free"
    /\ proc_pc' = [proc_pc EXCEPT !.update = "recv", !.sending = <<>>]
    /\ engine_call' = EngineCall("order_update_processor", "Ok",
                                 engine_call.n + 1)
    /\ UNCHANGED <<bot_state, last_trend, placed, ws_client, loop_pc, update_rx,
                   io_call>>

\* ------------------------------------------- engine.rs, process_candle
\* the callers of process_candle(&self, ..) that may run at the same time
CandleTasks == {1, 2}

\* Decimal::new(70, 2), in percent
confidence_threshold == 70

\* what MarketSignal::analyze yields besides the identifier and the symbol
Analysis(action, price, confidence) ==
    [action |-> action, price |-> price, confidence |-> confidence]

CandleTask(pc, symbol, signal_opt, to_close, published, entered) ==
    [pc |-> pc, symbol |-> symbol, signal_opt |-> signal_opt,
     to_close |-> to_close, published |-> published, entered |-> entered]

idle_task == CandleTask("idle", "", <<>>, <<>>, 0, 0)

CandleRet(task, ret, signal_opt, published, entered, started, returned) ==
    [task |-> task, ret |-> ret, signal_opt |-> signal_opt,
     published |-> published, entered |-> entered, started |-> started,
     returned |-> returned]

\* the TradingBot after initializer(): loaded is what load_open_orders read,
\* the rows of the trades table with status 'open'
InitLoaded(initial_balance, loaded) ==
    /\ account_balance = initial_balance
    /\ position = loaded
    /\ rw = "free"
    /\ trades = [i \in 1..Len(loaded) |-> TradeRow(loaded[i])]
    /\ ledger_call = LedgerCall("none", "", "", 0, 0, "none", <<>>, <<>>)

InitCandle ==
    /\ candle_task = [t \in CandleTasks |-> idle_task]
    /\ exit_log = <<>>
    /\ signal_log = <<>>
    /\ entry_log = <<>>
    /\ candle_ret = CandleRet(0, "none", <<>>, 0, 0, 0, 0)

\* the end of one turn of the for loop: the next position, or Ok(())
next_turn(t, task, started) ==
    IF Len(task.to_close) > 1
    THEN /\ candle_task' =
               [candle_task EXCEPT
                  ![t] = [task EXCEPT !.pc = "exit", !.to_close = Tail(@)]]
         /\ UNCHANGED candle_ret
    ELSE /\ candle_task' = [candle_task EXCEPT ![t] = idle_task]
         /\ candle_ret' = CandleRet(t, "Ok", task.signal_opt, task.published,
                                    task.entered, started,
                                    candle_ret.returned + 1)

\* process_candle(candle, symbol) up to the for loop: add_candles and
\* check_positions(candle.close, symbol); signal_opt is what the analyzer
\* yields once the candle is added; the call waits for ever in
\* self.position.read() when a write guard is held
ProcessCandleStart(t, current_price, symbol, signal_opt) ==
    /\ candle_task[t].pc = "idle"
    /\ LET to_close == check_positions(position, current_price, symbol)
           task == CandleTask("exit", symbol, signal_opt, to_close, 0, 0)
       IN  IF rw = "write"
           THEN /\ candle_task' = [candle_task EXCEPT
                                     ![t] = [task EXCEPT !.pc = "blocked",
                                                         !.to_close = <<>>]]
                /\ candle_ret' = [candle_ret EXCEPT !.started = @ + 1]
           ELSE IF to_close = <<>>
           THEN /\ candle_task' = candle_task
                /\ candle_ret' = CandleRet(t, "Ok", signal_opt, 0, 0,
                                           candle_ret.started + 1,
                                           candle_ret.returned + 1)
           ELSE /\ candle_task' = [candle_task EXCEPT ![t] = task]
                /\ candle_ret' = [candle_ret EXCEPT !.started = @ + 1]
    /\ UNCHANGED <<exit_log, signal_log, entry_log, ledgerVars>>

\* one turn of the for loop up to the answer of execute_order(req):
\* get_positions_by_id, which waits for ever when a write guard is held, and
\* the exit order of the position
ProcessCandleExit(t, exit_ok) ==
    /\ candle_task[t].pc = "exit"
    /\ LET task == candle_task[t]
           position_id == task.to_close[1][1]
           position_side == task.to_close[1][3]
           exit_side == IF position_side = "Long" THEN "Sell" ELSE "Buy"
       IN  IF rw = "write"
           THEN /\ candle_task' = [candle_task EXCEPT ![t].pc = "blocked"]
                /\ UNCHANGED exit_log
           ELSE IF \E i \in 1..Len(position) : position[i].id = position_id
           THEN /\ exit_log' = Append(exit_log,
                                      [id |-> position_id, side |-> exit_side,
                                       ok |-> exit_ok, task |-> t])
                /\ candle_task' =
                      [candle_task EXCEPT
                         ![t].pc = IF exit_ok THEN "close" ELSE "analyze"]
           ELSE /\ candle_task' = [candle_task EXCEPT ![t].pc = "analyze"]
                /\ UNCHANGED exit_log
    /\ UNCHANGED <<signal_log, entry_log, candle_ret, ledgerVars>>

\* the Ok arm of execute_order(req): close_positions(position_id,
\* current_price).await?, which never returns (see ClosePositions)
ProcessCandleClose(t) ==
    /\ candle_task[t].pc = "close"
    /\ candle_task' = [candle_task EXCEPT ![t].pc = "blocked"]
    /\ IF rw = "write"
       THEN UNCHANGED ledgerVars
       ELSE ClosePositions(candle_task[t].to_close[1][1],
                           candle_task[t].to_close[1][2])
    /\ UNCHANGED <<exit_log, signal_log, entry_log, candle_ret>>

\* the rest of the turn: analyzer.analyze(symbol), save_signal and
\* signal_tx.send, and for a confident Buy or Sell execute_entry_order with
\* the position_side of the position of this turn
ProcessCandleAnalyze(t, cancel_ok, place_ok, db_ok) ==
    /\ candle_task[t].pc = "analyze"
    /\ LET task == candle_task[t]
           position_side == task.to_close[1][3]
       IN  IF task.signal_opt = <<>>
           THEN /\ next_turn(t, task, candle_ret.started)
                /\ UNCHANGED <<signal_log, entry_log, ledgerVars>>
           ELSE LET a == task.signal_opt[1]
                    signal == Signal("s" \o ToString(Len(signal_log) + 1),
                                     task.symbol, a.action, a.price)
                    published == [task EXCEPT !.published = @ + 1]
                IN  /\ signal_log' = Append(signal_log, signal)
                    /\ IF /\ a.confidence >= confidence_threshold
                          /\ a.action \in {"Buy", "Sell"}
                       THEN LET r == execute_entry_order(
                                        account_balance, position, trades, rw,
                                        signal, position_side, cancel_ok,
                                        place_ok, db_ok)
                            IN  /\ position' = r.position
                                /\ trades' = r.trades
                                /\ UNCHANGED <<account_balance, rw, ledger_call>>
                                /\ entry_log' =
                                      Append(entry_log,
                                             [action |-> a.action, p |-> r.p,
                                              opened |-> r.position # position])
                                /\ IF r.ret = "Pending"
                                   THEN /\ candle_task' =
                                             [candle_task EXCEPT
                                                ![t] = [published EXCEPT
                                                          !.pc = "blocked",
                                                          !.entered = @ + 1]]
                                        /\ UNCHANGED candle_ret
                                   ELSE next_turn(t, [published EXCEPT
                                                        !.entered = @ + 1],
                                                  candle_ret.started)
                       ELSE /\ next_turn(t, published, candle_ret.started)
                            /\ UNCHANGED <<entry_log, ledgerVars>>
    /\ UNCHANGED exit_log

\* ------------------------------ bin/backtest.rs on accounts and prices
\* an account as an iteration may find it
InitStopLoss(account) ==
    /\ bt_account = account
    /\ decision = Decision("none", account.current_position, <<>>)
    /\ stop_call = StopCall(account, 0, 0, FALSE, 0)

\* state.check_stop_loss(current_price, trade.stop_loss)
StopLossCheck(current_price) ==
    /\ stop_call' = stop_loss_call(bt_account, current_price, stop_call.n + 1)
    /\ UNCHANGED <<bt_account, decision>>

\* lines 112-212 of an iteration on a market; exe is what place_order
\* returned
DecideAt(market, exe) ==
    LET r == decide(bt_account, main_trade, market, "HOLD", exe) IN
    /\ bt_account' = r.account
    /\ decision' = r.decision
    /\ stop_call' = stop_loss_call(bt_account, market.price, stop_call.n + 1)

\* ------------------------------------------------------------ specifications
\* the bot with one account and nothing called yet
InitBot == InitOrderBook /\ InitStream /\ InitMain

Init ==
    /\ InitBot
    /\ InitRisk(RiskConfig(150, 50, 3, 250000), AccountState(0, 2, 100),
                OrderRequest(100, 1, 98, "BUY"))
    /\ InitLedger(100)
    /\ InitSizer(100, 2)
    /\ InitGrid(<<>>)
    /\ InitEngine("SideChop", <<>>)
    /\ InitTrend(6)
    /\ InitSignal(TradeState(10, 100), MarketData(100, <<>>, <<>>), 1)
    /\ InitWs("Binance")
    /\ InitTasks(<<>>)
    /\ InitCandle

\* the replica under every sequence of calls
NextBook ==
    \/ \E snapshot \in Snapshots :
          ApplySnapshot(snapshot) /\ UNCHANGED <<feedVars, chanVars, mainVars, riskVars, ledgerVars, sizerVars, gridVars, engineVars, trendVars, signalVars, decisionVars, wsVars, taskVars, candleVars>>
    \/ \E updates \in Updates :
          ApplyUpdate(updates) /\ UNCHANGED <<feedVars, chanVars, mainVars, riskVars, ledgerVars, sizerVars, gridVars, engineVars, trendVars, signalVars, decisionVars, wsVars, taskVars, candleVars>>

SpecBook == Init /\ [][NextBook]_vars

\* what the exchange may answer in the feed model
FeedSides == {<<<<>>, <<>>>>,
              <<<<OrderBookLevel(1, 1)>>, <<OrderBookLevel(2, 1)>>>>}

FeedSnapshots ==
    {DepthSnapshot(bs[1], bs[2], id) : bs \in FeedSides, id \in 1..MaxSeq}

FeedEvents ==
    {e \in {WsDepthEvent(bs[1], bs[2], f, l) :
                bs \in FeedSides, f \in 1..FeedSeq, l \in 1..FeedSeq} :
        e.first_update_id <= e.final_update_id}

\* the task and the driver, the driver at most MaxBacklog events behind
NextFeed ==
    \/ FetchErr /\ UNCHANGED <<bookVars, mainVars, riskVars, ledgerVars, sizerVars, gridVars, engineVars, trendVars, signalVars, decisionVars, wsVars, taskVars, candleVars>>
    \/ \E snap \in FeedSnapshots :
          Len(chan) < MaxBacklog /\ FetchOk(snap) /\ UNCHANGED <<bookVars, mainVars, riskVars, ledgerVars, sizerVars, gridVars, engineVars, trendVars, signalVars, decisionVars, wsVars, taskVars, candleVars>>
    \/ ConnectErr /\ UNCHANGED <<bookVars, mainVars, riskVars, ledgerVars, sizerVars, gridVars, engineVars, trendVars, signalVars, decisionVars, wsVars, taskVars, candleVars>>
    \/ ConnectOk /\ UNCHANGED <<bookVars, mainVars, riskVars, ledgerVars, sizerVars, gridVars, engineVars, trendVars, signalVars, decisionVars, wsVars, taskVars, candleVars>>
    \/ \E evt \in FeedEvents :
          Len(chan) < MaxBacklog /\ WsText(evt) /\ UNCHANGED <<bookVars, mainVars, riskVars, ledgerVars, sizerVars, gridVars, engineVars, trendVars, signalVars, decisionVars, wsVars, taskVars, candleVars>>
    \/ WsPing /\ UNCHANGED <<bookVars, mainVars, riskVars, ledgerVars, sizerVars, gridVars, engineVars, trendVars, signalVars, decisionVars, wsVars, taskVars, candleVars>>
    \/ \E kind \in {"BadText", "Other", "Err"} :
          WsIgnored(kind) /\ UNCHANGED <<bookVars, mainVars, riskVars, ledgerVars, sizerVars, gridVars, engineVars, trendVars, signalVars, decisionVars, wsVars, taskVars, candleVars>>
    \/ WsEnd /\ UNCHANGED <<bookVars, mainVars, riskVars, ledgerVars, sizerVars, gridVars, engineVars, trendVars, signalVars, decisionVars, wsVars, taskVars, candleVars>>
    \/ MainOk /\ UNCHANGED <<riskVars, ledgerVars, sizerVars, gridVars, engineVars, trendVars, signalVars, wsVars, taskVars, candleVars>>
    \/ MainEnd /\ UNCHANGED <<riskVars, ledgerVars, sizerVars, gridVars, engineVars, trendVars, signalVars, wsVars, taskVars, candleVars>>

SpecFeed == Init /\ [][NextFeed]_vars

\* a feed without failures and without gaps, and a driver of any speed
FanoutSnapshots ==
    {DepthSnapshot(<<OrderBookLevel(1, 1)>>, <<OrderBookLevel(2, 1)>>, 1)}

FanoutEvents ==
    {WsDepthEvent(<<>>, <<>>, n, n) : n \in 1..FanoutSeq}

NextFanout ==
    \/ \E snap \in FanoutSnapshots :
          FetchOk(snap) /\ UNCHANGED <<bookVars, mainVars, riskVars, ledgerVars, sizerVars, gridVars, engineVars, trendVars, signalVars, decisionVars, wsVars, taskVars, candleVars>>
    \/ ConnectOk /\ UNCHANGED <<bookVars, mainVars, riskVars, ledgerVars, sizerVars, gridVars, engineVars, trendVars, signalVars, decisionVars, wsVars, taskVars, candleVars>>
    \/ \E evt \in FanoutEvents :
          /\ evt.first_update_id = last_updated_id + 1
          /\ WsText(evt)
          /\ UNCHANGED <<bookVars, mainVars, riskVars, ledgerVars, sizerVars, gridVars, engineVars, trendVars, signalVars, decisionVars, wsVars, taskVars, candleVars>>
    \/ MainOk /\ UNCHANGED <<riskVars, ledgerVars, sizerVars, gridVars, engineVars, trendVars, signalVars, wsVars, taskVars, candleVars>>
    \/ MainErr /\ UNCHANGED <<riskVars, ledgerVars, sizerVars, gridVars, engineVars, trendVars, signalVars, wsVars, taskVars, candleVars>>

SpecFanout == Init /\ [][NextFanout]_vars

\* every check on every configuration, account and request
InitRiskInputs ==
    /\ InitBot
    /\ \E self \in RiskConfigs, st \in AccountStates, r \in OrderRequests :
          InitRisk(self, st, r)
    /\ InitLedger(100)
    /\ InitSizer(100, 2)
    /\ InitGrid(<<>>)
    /\ InitEngine("SideChop", <<>>)
    /\ InitTrend(6)
    /\ InitSignal(TradeState(10, 100), MarketData(100, <<>>, <<>>), 1)
    /\ InitWs("Binance")
    /\ InitTasks(<<>>)
    /\ InitCandle

NextRisk ==
    \/ CheckQuantity /\ UNCHANGED <<bookVars, feedVars, chanVars, mainVars, ledgerVars, sizerVars, gridVars, engineVars, trendVars, signalVars, decisionVars, wsVars, taskVars, candleVars>>
    \/ CheckBalance /\ UNCHANGED <<bookVars, feedVars, chanVars, mainVars, ledgerVars, sizerVars, gridVars, engineVars, trendVars, signalVars, decisionVars, wsVars, taskVars, candleVars>>
    \/ CheckPosition /\ UNCHANGED <<bookVars, feedVars, chanVars, mainVars, ledgerVars, sizerVars, gridVars, engineVars, trendVars, signalVars, decisionVars, wsVars, taskVars, candleVars>>
    \/ CheckDrawdown /\ UNCHANGED <<bookVars, feedVars, chanVars, mainVars, ledgerVars, sizerVars, gridVars, engineVars, trendVars, signalVars, decisionVars, wsVars, taskVars, candleVars>>

SpecRisk == InitRiskInputs /\ [][NextRisk]_vars

\* what the callers of the PositionManager pass
Ids == {"a", "b"}
Symbols == {"BTC", "ETH"}
PositionSides == {"Long", "Short"}

Positions ==
    {Position(id, symbol, entry_price, size, side,
              take_profit(100, side), stop_loss(100, side)) :
        id \in Ids, symbol \in Symbols, entry_price \in {0, 100},
        size \in {0, 1}, side \in PositionSides}

CurrentPrices == {96, 97, 98, 101, 102, 104, 105}
ExitPrices == {97, 105}

\* the PositionManager under every sequence of calls
NextLedger ==
    \/ \E p \in Positions, db_ok \in BOOLEAN :
          OpenPosition(p, db_ok)
          /\ UNCHANGED <<bookVars, feedVars, chanVars, mainVars, riskVars, sizerVars, gridVars, engineVars, trendVars, signalVars, decisionVars, wsVars, taskVars, candleVars>>
    \/ \E current_price \in CurrentPrices, symbol \in Symbols :
          CheckPositions(current_price, symbol)
          /\ UNCHANGED <<bookVars, feedVars, chanVars, mainVars, riskVars, sizerVars, gridVars, engineVars, trendVars, signalVars, decisionVars, wsVars, taskVars, candleVars>>
    \/ \E position_id \in Ids, exit_price \in ExitPrices :
          ClosePositions(position_id, exit_price)
          /\ UNCHANGED <<bookVars, feedVars, chanVars, mainVars, riskVars, sizerVars, gridVars, engineVars, trendVars, signalVars, decisionVars, wsVars, taskVars, candleVars>>

SpecLedger == Init /\ [][NextLedger]_vars

\* the balances TradingBot::new is given and the signals of the analyzer
Balances == {-100, 0, 100}

Signals ==
    {Signal(id, symbol, action, price) :
        id \in Ids, symbol \in Symbols, action \in {"Buy"}, price \in {0, 100}}

InitEntry ==
    /\ InitBot
    /\ InitRisk(RiskConfig(150, 50, 3, 250000), AccountState(0, 2, 100),
                OrderRequest(100, 1, 98, "BUY"))
    /\ \E initial_balance \in Balances : InitLedger(initial_balance)
    /\ InitSizer(100, 2)
    /\ InitGrid(<<>>)
    /\ InitEngine("SideChop", <<>>)
    /\ InitTrend(6)
    /\ InitSignal(TradeState(10, 100), MarketData(100, <<>>, <<>>), 1)
    /\ InitWs("Binance")
    /\ InitTasks(<<>>)
    /\ InitCandle

\* entries of every signal on every balance, and closes
NextEntry ==
    \/ \E signal \in Signals, position_side \in PositionSides,
          cancel_ok \in BOOLEAN, place_ok \in BOOLEAN, db_ok \in BOOLEAN :
          ExecuteEntryOrder(signal, position_side, cancel_ok, place_ok, db_ok)
          /\ UNCHANGED <<bookVars, feedVars, chanVars, mainVars, riskVars, sizerVars, gridVars, engineVars, trendVars, signalVars, decisionVars, wsVars, taskVars, candleVars>>
    \/ \E position_id \in Ids, exit_price \in ExitPrices :
          ClosePositions(position_id, exit_price)
          /\ UNCHANGED <<bookVars, feedVars, chanVars, mainVars, riskVars, sizerVars, gridVars, engineVars, trendVars, signalVars, decisionVars, wsVars, taskVars, candleVars>>

SpecEntry == InitEntry /\ [][NextEntry]_vars

\* the balances, risk fractions in percent and prices sizes are asked for
SizerBalances == {0, 100, 200}
SizerRiskPcts == {2, 50}
EntryPrices == {99, 100}
StopPrices == {98, 99, 100, 101}

InitSizing ==
    /\ InitBot
    /\ InitRisk(RiskConfig(150, 50, 3, 250000), AccountState(0, 2, 100),
                OrderRequest(100, 1, 98, "BUY"))
    /\ InitLedger(100)
    /\ \E balance \in SizerBalances, risk_pct \in SizerRiskPcts :
          InitSizer(balance, risk_pct)
    /\ InitGrid(<<>>)
    /\ InitEngine("SideChop", <<>>)
    /\ InitTrend(6)
    /\ InitSignal(TradeState(10, 100), MarketData(100, <<>>, <<>>), 1)
    /\ InitWs("Binance")
    /\ InitTasks(<<>>)
    /\ InitCandle

NextSizing ==
    \/ \E entry_price \in EntryPrices, stop \in StopPrices :
          SizerCalculate(entry_price, stop)
          /\ UNCHANGED <<bookVars, feedVars, chanVars, mainVars, riskVars, ledgerVars, gridVars, engineVars, trendVars, signalVars, decisionVars, wsVars, taskVars, candleVars>>
    \/ \E balance \in SizerBalances, entry_price \in EntryPrices, stop \in StopPrices :
          ManagerCalculate(balance, entry_price, stop)
          /\ UNCHANGED <<bookVars, feedVars, chanVars, mainVars, riskVars, ledgerVars, gridVars, engineVars, trendVars, signalVars, decisionVars, wsVars, taskVars, candleVars>>

SpecSizing == InitSizing /\ [][NextSizing]_vars

\* the maps, statuses and orders the grid calls are given; level 100 is
\* 1000000
GridOrders ==
    {GridOrder(client_oid, 1000000, side, "New") :
        client_oid \in {"u1", "u2"}, side \in {"Buy", "Sell"}}

OrderMaps ==
    UNION {[keys -> GridOrders] : keys \in SUBSET {"client_oid", "side", "u1"}}

\* the update processor hands an order to the strategy only when its status
\* is Filled
FilledOrders ==
    {GridOrder(client_oid, 1000000, side, "Filled") :
        client_oid \in {"u1", "u2"}, side \in {"Buy", "Sell"}}

InitGridFill ==
    /\ InitBot
    /\ InitRisk(RiskConfig(150, 50, 3, 250000), AccountState(0, 2, 100),
                OrderRequest(100, 1, 98, "BUY"))
    /\ InitLedger(100)
    /\ InitSizer(100, 2)
    /\ \E ordermap \in OrderMaps : InitGrid(ordermap)
    /\ InitEngine("SideChop", <<>>)
    /\ InitTrend(6)
    /\ InitSignal(TradeState(10, 100), MarketData(100, <<>>, <<>>), 1)
    /\ InitWs("Binance")
    /\ InitTasks(<<>>)
    /\ InitCandle

\* order updates and fills, at most MaxFills of them
NextGridFill ==
    \/ \E status \in {"new", "filled", "rejected", "cancelled"},
          place_ok \in BOOLEAN :
          /\ grid_call.n < MaxFills
          /\ HandleMarketDataKc(status, place_ok)
          /\ UNCHANGED <<bookVars, feedVars, chanVars, mainVars, riskVars, ledgerVars, sizerVars, engineVars, trendVars, signalVars, decisionVars, wsVars, taskVars, candleVars>>
    \/ \E filled_order \in FilledOrders, oid \in {"n1", "n2"} :
          /\ grid_call.n < MaxFills
          /\ \A i \in 1..Len(active_orders) : active_orders[i].client_oid # oid
          /\ UpdateGridOnFill(filled_order, oid)
          /\ UNCHANGED <<bookVars, feedVars, chanVars, mainVars, riskVars, ledgerVars, sizerVars, engineVars, trendVars, signalVars, decisionVars, wsVars, taskVars, candleVars>>

SpecGridFill == InitGridFill /\ [][NextGridFill]_vars

\* the trend the engine is built with and the orders the store holds
Trends == {"SideChop", "UpTrend", "DownTrend"}

ExistingOrders ==
    {<<>>,
     <<GridOrder("u1", 990000, "Buy", "New")>>,
     <<GridOrder("u1", 990000, "Buy", "New"),
       GridOrder("u2", 1010000, "Sell", "New")>>,
     <<GridOrder("u1", 990000, "Buy", "New"),
       GridOrder("u2", 1010000, "Sell", "Filled")>>}

\* what get_candles may give: nothing, or one candle closing at 100
CandleReads == {<<>>, <<[close |-> 1000000]>>}

InitEngineInputs ==
    /\ InitBot
    /\ InitRisk(RiskConfig(150, 50, 3, 250000), AccountState(0, 2, 100),
                OrderRequest(100, 1, 98, "BUY"))
    /\ InitLedger(100)
    /\ InitSizer(100, 2)
    /\ InitGrid(<<>>)
    /\ \E trend \in Trends, existing_orders \in ExistingOrders :
          InitEngine(trend, existing_orders)
    /\ InitTrend(6)
    /\ InitSignal(TradeState(10, 100), MarketData(100, <<>>, <<>>), 1)
    /\ InitWs("Binance")
    /\ InitTasks(<<>>)
    /\ InitCandle

\* the tasks of TradingEngine::start, at most MaxEngineSteps steps
NextEngine ==
    \/ \E connect_ok \in BOOLEAN :
          /\ engine_call.n < MaxEngineSteps
          /\ StartWebsocket(connect_ok)
          /\ UNCHANGED <<bookVars, feedVars, chanVars, mainVars, riskVars, ledgerVars, sizerVars, gridVars, trendVars, signalVars, decisionVars, wsVars, taskVars, candleVars>>
    \/ \E place_ok \in BOOLEAN :
          /\ engine_call.n < MaxEngineSteps
          /\ OrderProcessor(place_ok)
          /\ UNCHANGED <<bookVars, feedVars, chanVars, mainVars, riskVars, ledgerVars, sizerVars, gridVars, trendVars, signalVars, decisionVars, wsVars, taskVars, candleVars>>
    \/ \E trend \in Trends :
          /\ engine_call.n < MaxEngineSteps
          /\ UpdateTrend(trend)
          /\ UNCHANGED <<bookVars, feedVars, chanVars, mainVars, riskVars, ledgerVars, sizerVars, gridVars, trendVars, signalVars, decisionVars, wsVars, taskVars, candleVars>>
    \/ \E candles \in CandleReads :
          /\ engine_call.n < MaxEngineSteps
          /\ TradingLoop(candles)
          /\ UNCHANGED <<bookVars, feedVars, chanVars, mainVars, riskVars, ledgerVars, sizerVars, gridVars, trendVars, signalVars, decisionVars, wsVars, taskVars, candleVars>>

SpecEngine == InitEngineInputs /\ [][NextEngine]_vars

\* the candles and the ATR multipliers (tenths) the detector is given
CandleInputs ==
    {Candle(close + spread, close - spread, close) :
        close \in {96, 112, 128}, spread \in {0, 8}}

KAtrs == {0, 6}

InitTrendInputs ==
    /\ InitBot
    /\ InitRisk(RiskConfig(150, 50, 3, 250000), AccountState(0, 2, 100),
                OrderRequest(100, 1, 98, "BUY"))
    /\ InitLedger(100)
    /\ InitSizer(100, 2)
    /\ InitGrid(<<>>)
    /\ InitEngine("SideChop", <<>>)
    /\ \E k_atr \in KAtrs : InitTrend(k_atr)
    /\ InitSignal(TradeState(10, 100), MarketData(100, <<>>, <<>>), 1)
    /\ InitWs("Binance")
    /\ InitTasks(<<>>)
    /\ InitCandle

\* one update per closed candle, at most MaxCandles of them
NextTrend ==
    \E c \in CandleInputs :
       /\ Len(candle_log) < MaxCandles
       /\ TrendUpdate(c)
       /\ UNCHANGED <<bookVars, feedVars, chanVars, mainVars, riskVars, ledgerVars, sizerVars, gridVars, engineVars, signalVars, decisionVars, wsVars, taskVars, candleVars>>

SpecTrend == InitTrendInputs /\ [][NextTrend]_vars

\* the books, prices and depths generate_signal is given; the EMA is 100 and
\* the threshold 10 percent
BookLevels == {<<10, 3>>, <<20, 2>>, <<10, 1>>}

BookSides ==
    {<<>>} \cup {<<a>> : a \in BookLevels}
           \cup {<<a, b>> : a \in BookLevels, b \in BookLevels}

MarketDatas ==
    {MarketData(price, market_bids, market_asks) :
        price \in {99, 100, 101}, market_bids \in BookSides,
        market_asks \in BookSides}

Depths == {1, 2}

InitSignalInputs ==
    /\ InitBot
    /\ InitRisk(RiskConfig(150, 50, 3, 250000), AccountState(0, 2, 100),
                OrderRequest(100, 1, 98, "BUY"))
    /\ InitLedger(100)
    /\ InitSizer(100, 2)
    /\ InitGrid(<<>>)
    /\ InitEngine("SideChop", <<>>)
    /\ InitTrend(6)
    /\ \E market \in MarketDatas, depth \in Depths :
          InitSignal(TradeState(10, 100), market, depth)
    /\ InitWs("Binance")
    /\ InitTasks(<<>>)
    /\ InitCandle

\* calls of generate_signal on the state and the market data at hand
NextSignal ==
    \/ /\ GenerateSignal(signal_call.self, signal_call.market, signal_call.depth)
       /\ UNCHANGED <<bookVars, feedVars, chanVars, mainVars, riskVars, ledgerVars, sizerVars, gridVars, engineVars, trendVars, decisionVars, wsVars, taskVars, candleVars>>
    \/ /\ GenerateSignalMod(signal_call.self, signal_call.market, signal_call.depth)
       /\ UNCHANGED <<bookVars, feedVars, chanVars, mainVars, riskVars, ledgerVars, sizerVars, gridVars, engineVars, trendVars, decisionVars, wsVars, taskVars, candleVars>>

SpecSignal == InitSignalInputs /\ [][NextSignal]_vars

\* ws_connect of either exchange client on the candles of the detector
InitWsGrid ==
    /\ InitBot
    /\ InitRisk(RiskConfig(150, 50, 3, 250000), AccountState(0, 2, 100),
                OrderRequest(100, 1, 98, "BUY"))
    /\ InitLedger(100)
    /\ InitSizer(100, 2)
    /\ InitGrid(<<>>)
    /\ InitEngine("SideChop", <<>>)
    /\ \E k_atr \in KAtrs : InitTrend(k_atr)
    /\ InitSignal(TradeState(10, 100), MarketData(100, <<>>, <<>>), 1)
    /\ \E exchange \in {"Binance", "KuCoin"} : InitWs(exchange)
    /\ InitTasks(<<>>)
    /\ InitCandle

\* one candle message after the other, at most MaxCandles of them
NextWsGrid ==
    \E c \in CandleInputs, place_ok \in BOOLEAN, cancel_ok \in BOOLEAN :
       /\ Len(candle_log) < MaxCandles
       /\ WsCandle(c, place_ok, cancel_ok)
       /\ UNCHANGED <<bookVars, feedVars, chanVars, mainVars, riskVars, ledgerVars, sizerVars, gridVars, engineVars, signalVars, decisionVars, taskVars, candleVars>>

SpecWsGrid == InitWsGrid /\ [][NextWsGrid]_vars

\* the order channel when the tasks are looked at: empty, one short of full
\* or full, the requests being cancel requests of the trading loop
QueuedRequests ==
    {[i \in 1..n |-> GridRequest("q" \o ToString(i), "Buy", 990000)] :
        n \in {0, order_capacity - 1, order_capacity}}

\* the update channel: nothing, an order reported New, one or two Filled
UpdateQueues ==
    {<<>>,
     <<GridOrder("u1", 990000, "Buy", "New")>>,
     <<GridOrder("u1", 990000, "Buy", "Filled")>>,
     <<GridOrder("u1", 990000, "Buy", "Filled"),
       GridOrder("u2", 1010000, "Sell", "Filled")>>}

InitTaskInputs ==
    /\ InitBot
    /\ InitRisk(RiskConfig(150, 50, 3, 250000), AccountState(0, 2, 100),
                OrderRequest(100, 1, 98, "BUY"))
    /\ InitLedger(100)
    /\ InitSizer(100, 2)
    /\ InitGrid(<<>>)
    /\ \E queued \in QueuedRequests :
          InitEngineQueued("SideChop", <<>>, queued)
    /\ InitTrend(6)
    /\ InitSignal(TradeState(10, 100), MarketData(100, <<>>, <<>>), 1)
    /\ InitWs("Binance")
    /\ \E updates \in UpdateQueues : InitTasks(updates)
    /\ InitCandle

\* the tasks TradingEngine::start spawns, one step of one task at a time
NextTasks ==
    \/ \E connect_ok \in BOOLEAN :
          /\ WebsocketTask(connect_ok)
          /\ UNCHANGED <<bookVars, feedVars, chanVars, mainVars, riskVars, ledgerVars, sizerVars, gridVars, trendVars, signalVars, decisionVars, wsVars, candleVars>>
    \/ /\ OrderRecv
       /\ UNCHANGED <<bookVars, feedVars, chanVars, mainVars, riskVars, ledgerVars, sizerVars, gridVars, trendVars, signalVars, decisionVars, wsVars, candleVars>>
    \/ \E place_ok \in BOOLEAN :
          /\ OrderPlaced(place_ok)
          /\ UNCHANGED <<bookVars, feedVars, chanVars, mainVars, riskVars, ledgerVars, sizerVars, gridVars, trendVars, signalVars, decisionVars, wsVars, candleVars>>
    \/ /\ OrderStateWrite
       /\ UNCHANGED <<bookVars, feedVars, chanVars, mainVars, riskVars, ledgerVars, sizerVars, gridVars, trendVars, signalVars, decisionVars, wsVars, candleVars>>
    \/ /\ OrderUpdate
       /\ UNCHANGED <<bookVars, feedVars, chanVars, mainVars, riskVars, ledgerVars, sizerVars, trendVars, signalVars, decisionVars, wsVars, candleVars>>
    \/ /\ OrderUpdateSent
       /\ UNCHANGED <<bookVars, feedVars, chanVars, mainVars, riskVars, ledgerVars, sizerVars, gridVars, trendVars, signalVars, decisionVars, wsVars, candleVars>>

SpecTasks == InitTaskInputs /\ [][NextTasks]_vars

\* process_candle calls started at most
MaxCandleCalls == 2

\* what load_open_orders finds: nothing, a long or a short position, or both
LoadedPositions ==
    {<<>>,
     <<Position("a", "BTC", 100, 1, "Long", 104, 98)>>,
     <<Position("a", "BTC", 100, 1, "Short", 96, 102)>>,
     <<Position("a", "BTC", 100, 1, "Long", 104, 98),
       Position("b", "BTC", 100, 1, "Short", 96, 102)>>}

\* the closes of the candles and what the analyzer yields on them
CandleCloses == {98, 100, 104}

Analyses ==
    {<<>>} \cup
    {<<Analysis(action, 100, confidence)>> :
        action \in {"Buy", "Sell", "Hold"}, confidence \in {60, 70}}

InitCandleInputs ==
    /\ InitBot
    /\ InitRisk(RiskConfig(150, 50, 3, 250000), AccountState(0, 2, 100),
                OrderRequest(100, 1, 98, "BUY"))
    /\ \E loaded \in LoadedPositions : InitLoaded(100, loaded)
    /\ InitSizer(100, 2)
    /\ InitGrid(<<>>)
    /\ InitEngine("SideChop", <<>>)
    /\ InitTrend(6)
    /\ InitSignal(TradeState(10, 100), MarketData(100, <<>>, <<>>), 1)
    /\ InitWs("Binance")
    /\ InitTasks(<<>>)
    /\ InitCandle

\* calls of process_candle for BTC, at most MaxCandleCalls of them, two at a
\* time
NextCandle ==
    \/ \E t \in CandleTasks, current_price \in CandleCloses,
          signal_opt \in Analyses :
          /\ candle_ret.started < MaxCandleCalls
          /\ ProcessCandleStart(t, current_price, "BTC", signal_opt)
          /\ UNCHANGED <<bookVars, feedVars, chanVars, mainVars, riskVars, sizerVars, gridVars, engineVars, trendVars, signalVars, decisionVars, wsVars, taskVars>>
    \/ \E t \in CandleTasks, exit_ok \in BOOLEAN :
          /\ ProcessCandleExit(t, exit_ok)
          /\ UNCHANGED <<bookVars, feedVars, chanVars, mainVars, riskVars, sizerVars, gridVars, engineVars, trendVars, signalVars, decisionVars, wsVars, taskVars>>
    \/ \E t \in CandleTasks :
          /\ ProcessCandleClose(t)
          /\ UNCHANGED <<bookVars, feedVars, chanVars, mainVars, riskVars, sizerVars, gridVars, engineVars, trendVars, signalVars, decisionVars, wsVars, taskVars>>
    \/ \E t \in CandleTasks, cancel_ok \in BOOLEAN, place_ok \in BOOLEAN,
          db_ok \in BOOLEAN :
          /\ ProcessCandleAnalyze(t, cancel_ok, place_ok, db_ok)
          /\ UNCHANGED <<bookVars, feedVars, chanVars, mainVars, riskVars, sizerVars, gridVars, engineVars, trendVars, signalVars, decisionVars, wsVars, taskVars>>

SpecCandle == InitCandleInputs /\ [][NextCandle]_vars

\* check_stop_loss calls at most
MaxStopCalls == 3

\* accounts flat, long and short (thousandths) entered at 100 or 200, and the
\* prices around their stops
BacktestAccounts ==
    {BacktestAccount(current_position, 1, entry_price) :
        current_position \in {-1, 0, 1}, entry_price \in {100, 200}}

StopPricesSeen == {98, 99, 100, 101, 102}

StopMarkets ==
    {[price |-> price, quantity |-> 1, bids |-> market_bids,
      asks |-> market_asks] :
        price \in StopPricesSeen, market_bids \in {<<>>, <<<<10, 3>>>>},
        market_asks \in {<<>>, <<<<10, 1>>>>}}

InitStopInputs ==
    /\ InitOrderBook
    /\ InitStream
    /\ main_pc = "loop"
    /\ snapshot_received = FALSE
    /\ result = "none"
    /\ to_decision = FALSE
    /\ \E account \in BacktestAccounts : InitStopLoss(account)
    /\ InitRisk(RiskConfig(150, 50, 3, 250000), AccountState(0, 2, 100),
                OrderRequest(100, 1, 98, "BUY"))
    /\ InitLedger(100)
    /\ InitSizer(100, 2)
    /\ InitGrid(<<>>)
    /\ InitEngine("SideChop", <<>>)
    /\ InitTrend(6)
    /\ InitSignal(TradeState(10, 100), MarketData(100, <<>>, <<>>), 1)
    /\ InitWs("Binance")
    /\ InitTasks(<<>>)
    /\ InitCandle

\* the stop-loss check and the decision on every account, price and market
NextStop ==
    \/ \E current_price \in StopPricesSeen :
          /\ stop_call.n < MaxStopCalls
          /\ StopLossCheck(current_price)
          /\ UNCHANGED <<bookVars, feedVars, chanVars, mainVars, riskVars, ledgerVars, sizerVars, gridVars, engineVars, trendVars, signalVars, wsVars, taskVars, candleVars>>
    \/ \E market \in StopMarkets, exe \in {"BUY", "SELL", "HOLD"} :
          /\ stop_call.n < MaxStopCalls
          /\ DecideAt(market, exe)
          /\ UNCHANGED <<bookVars, feedVars, chanVars, mainVars, riskVars, ledgerVars, sizerVars, gridVars, engineVars, trendVars, signalVars, wsVars, taskVars, candleVars>>

SpecStop == InitStopInputs /\ [][NextStop]_vars

\* ------------------------------------------------------ order book claims
StrictlyDescending(s) == \A i \in 1..(Len(s) - 1) : s[i].price > s[i + 1].price
StrictlyAscending(s) == \A i \in 1..(Len(s) - 1) : s[i].price < s[i + 1].price

\* C1: after any sequence of apply_snapshots and apply_updates calls the bids
\* are strictly descending and the asks strictly ascending by price, so that
\* no side holds a price twice.
C1_StrictlySorted == StrictlyDescending(bids) /\ StrictlyAscending(asks)

\* C2: a delta whose first_updated_id is greater than cursor + 1 is not
\* reported as applied and leaves bids and asks as they were.
C2_GapRejected ==
    [][\A u \in Updates :
          (u.first_updated_id > last_update_id + 1 /\ ApplyUpdate(u))
              => (call'.ret = FALSE /\ bids' = bids /\ asks' = asks)]_vars

\* C3: a delta whose final_update_id is at most the cursor is reported as not
\* applied and leaves bids, asks and the cursor as they were.
C3_StaleNoOp ==
    [][(call'.op = "apply_updates" /\ call'.seq <= last_update_id)
          => (call'.ret = FALSE /\ bids' = bids /\ asks' = asks
              /\ last_update_id' = last_update_id)]_vars

C3_Witness ==
    /\ call.op = "apply_updates"
    /\ call.seq <= call.before
    /\ call.ret = FALSE
    /\ last_update_id = call.before
    /\ bids # <<>>
    /\ asks # <<>>

\* the levels of s whose price is p
AtPrice(s, p) == SelectSeq(s, LAMBDA x : x.price = p)

\* the price is named by a change of the delta
Named(changes, p) == \E i \in 1..Len(changes) : changes[i].price = p

\* the quantity the delta gives for a price: that of its last change there
DeltaQuantity(changes, p) ==
    LET last == CHOOSE i \in 1..Len(changes) :
                    /\ changes[i].price = p
                    /\ \A j \in (i + 1)..Len(changes) : changes[j].price # p
    IN  changes[last].quantity

SideEffect(old, new, changes) ==
    \A p \in Prices :
        IF Named(changes, p)
        THEN IF DeltaQuantity(changes, p) = 0
             THEN AtPrice(new, p) = <<>>
             ELSE AtPrice(new, p) = <<OrderBookLevel(p, DeltaQuantity(changes, p))>>
        ELSE AtPrice(new, p) = AtPrice(old, p)

\* no price is named twice
DistinctPrices(s) == \A i, j \in 1..Len(s) : s[i].price = s[j].price => i = j

\* C4: when a delta is applied, on the bid side and on the ask side every
\* changed price with quantity 0 is absent afterwards, every changed price
\* with a quantity > 0 is present once with the quantity of the delta, the
\* other levels are as before, and the cursor is the delta's final_update_id.
\* Stated for a replica that holds each price once and a delta that names
\* each price once, where "the quantity of the delta" is unambiguous.
C4_AppliedEffect ==
    [][\A u \in Updates :
          (/\ DistinctPrices(bids) /\ DistinctPrices(asks)
           /\ DistinctPrices(u.bids) /\ DistinctPrices(u.asks)
           /\ ApplyUpdate(u) /\ call'.ret)
              => /\ SideEffect(bids, bids', u.bids)
                 /\ SideEffect(asks, asks', u.asks)
                 /\ last_update_id' = u.final_update_id]_vars

Count(s, x) == Cardinality({i \in 1..Len(s) : s[i] = x})
SameLevels(s, t) == \A x \in Levels : Count(s, x) = Count(t, x)

\* C5: from every state of the replica, apply_snapshots leaves exactly the
\* levels of the snapshot on each side and the cursor at the snapshot's
\* last_updated_id, also when that is lower than the cursor before.
C5_SnapshotReplaces ==
    \A s \in Snapshots :
        LET new == apply_snapshots(ob, s) IN
        /\ SameLevels(new.bids, s.bids)
        /\ SameLevels(new.asks, s.asks)
        /\ new.last_update_id = s.last_updated_id

C5_Witness ==
    /\ call.op = "apply_snapshots"
    /\ call.seq < call.before
    /\ last_update_id = call.seq
    /\ bids # <<>>
    /\ asks # <<>>

\* C6: applying a snapshot a second time gives the replica that applying it
\* once gave: the same bids, asks and cursor.
C6_SnapshotIdempotent ==
    \A s \in Snapshots :
        LET once == apply_snapshots(ob, s) IN
        apply_snapshots(once, s) = once

\* a snapshot carrying the cursor's own number was applied to a replica that
\* already held two levels of one price
C6_Witness ==
    /\ call.op = "apply_snapshots"
    /\ call.seq = call.before
    /\ Len(asks) = MaxLevels
    /\ asks[1].price = asks[2].price
    /\ asks[1].quantity # asks[2].quantity

\* C7: best_bid and best_ask give the head price of a side that holds levels
\* and never give 0 for an empty side; mid_price is not built from 0s.
C7_NoZeroForEmpty ==
    /\ bids # <<>> => best_bid(ob) = bids[1].price
    /\ asks # <<>> => best_ask(ob) = asks[1].price
    /\ bids = <<>> => best_bid(ob) # 0
    /\ asks = <<>> => best_ask(ob) # 0
    /\ (bids = <<>> /\ asks = <<>>) => mid_price_x2(ob) # 0

\* C8: no level of the replica has quantity 0.
C8_NoZeroQuantity ==
    /\ \A i \in 1..Len(bids) : bids[i].quantity # 0
    /\ \A i \in 1..Len(asks) : asks[i].quantity # 0

\* ----------------------------------------------------------- feed claims
\* an event was sent on the channel in this step
Sent == Len(chan') > Len(chan) \/ lagged' > lagged

\* C9: once an inbound delta was ahead of last_updated_id + 1, the task
\* leaves the streaming loop and forwards no further delta until it has
\* fetched a fresh snapshot.
C9_GapForcesResnapshot ==
    [][/\ (gap_seen /\ Sent) => chan'[Len(chan')].kind = "Snapshot"
       /\ (~gap_seen /\ gap_seen') => fpc' # "streaming"]_vars

\* C10: no event the task sent is overwritten in the channel before the
\* driver received it, however far the driver is behind.
C10_Lossless == lagged = 0

\* C11: a transport failure of the task (snapshot request or parse error,
\* connect error, end of the websocket stream) is followed by a new cycle
\* while attempt has not passed its maximum: the task is never stopped with
\* attempt <= MaxAttempt.
C11_FailureRetries == fpc = "done" => attempt > MaxAttempt

\* --------------------------------------------------------- driver claims
\* C12: the iteration in which the market stream reported an error and was
\* restarted does not reach the decision path (stop-loss check, signal, order
\* placement) and the replica is not taken as synced afterwards.
C12_ErrNotSynced == result = "Err" => (~to_decision /\ ~snapshot_received)

\* ------------------------------------------------------- risk gate claims
\* the quantity check or the balance check refuses the intent of the last
\* execute_entry_order call
EntryRejected ==
    LET r == OrderRequest(ledger_call.price, ledger_call.size, 0, "BUY")
        st == AccountState(0, 0, account_balance)
    IN  \/ check_quantity(risk_config, r) = "REJECTED"
        \/ check_balance(risk_config, st, r) = "REJECTED"

OrderSent(sent) == \E i \in 1..Len(sent) : sent[i].kind = "order"

\* C13: execute_entry_order sends no order to the exchange client and opens
\* no position for an intent that the risk checks reject.
C13_RejectedNotForwarded ==
    [][(ledger_call'.op = "execute_entry_order" /\ EntryRejected')
          => (/\ ~OrderSent(ledger_call'.sent)
              /\ position' = position
              /\ trades' = trades)]_vars

\* C14: check_quantity gives REJECTED for a quantity of 0 or less, whatever
\* the balance, the current position and the limits are.
C14_ZeroQuantityRejected ==
    (risk_check.fn = "check_quantity" /\ req.quantity <= 0)
        => risk_check.ret = "REJECTED"

C14_Witness ==
    /\ risk_check = RiskCheck("check_quantity", "REJECTED")
    /\ req.quantity = 0
    /\ state.account_balance > 0
    /\ state.current_position + 1 <= state.max_position

\* C15: check_position gives REJECTED when current_position + quantity is
\* above max_position, else REJECTED when the percentage of the balance is
\* above max_position_pct, else WARNING when it is above warn_position_pct,
\* else PASSED; WARNING is given only between the two percentages and some
\* request gets it whenever warn_position_pct < max_position_pct.
C15_PositionLimit ==
    risk_check.fn = "check_position" =>
        LET total == state.current_position + req.quantity
            value == total * req.entry_price
            over_max == pct_exceeds(value, state.account_balance,
                                    risk_config.max_position_pct)
            over_warn == pct_exceeds(value, state.account_balance,
                                     risk_config.warn_position_pct)
        IN  /\ total > state.max_position => risk_check.ret = "REJECTED"
            /\ (total <= state.max_position /\ over_max)
                  => risk_check.ret = "REJECTED"
            /\ (total <= state.max_position /\ ~over_max /\ over_warn)
                  => risk_check.ret = "WARNING"
            /\ (total <= state.max_position /\ ~over_max /\ ~over_warn)
                  => risk_check.ret = "PASSED"
            /\ risk_check.ret = "WARNING" => (over_warn /\ ~over_max)
            /\ risk_config.warn_position_pct < risk_config.max_position_pct
                  => \E st \in AccountStates, r \in OrderRequests :
                        check_position(risk_config, st, r) = "WARNING"

C15_Witness ==
    /\ risk_check = RiskCheck("check_position", "WARNING")
    /\ risk_config.warn_position_pct < risk_config.max_position_pct

\* C16: with a stop-loss given, check_drawdown gives REJECTED whenever
\* |entry_price - stop_loss| * quantity, as a percentage of the balance, is
\* above max_drawdown_pct, for BUY and SELL and on whichever side of the
\* entry price the stop lies (for a request that passed the quantity and the
\* balance check).
C16_AbsoluteDrawdown ==
    (/\ risk_check.fn = "check_drawdown"
     /\ req.quantity > 0
     /\ state.account_balance > 0
     /\ req.stop_loss # 0
     /\ pct_exceeds(Abs(req.entry_price - req.stop_loss) * req.quantity,
                    state.account_balance, risk_config.max_drawdown_pct))
        => risk_check.ret = "REJECTED"

\* --------------------------------------------------- position ledger claims
\* the ids of the positions of a Vec
OpenIds(positions) == {positions[i].id : i \in 1..Len(positions)}

\* C17: open_position with entry_price 0 or size 0 returns Ok, writes no row
\* and leaves the Vec as it was; for any other position the Vec changes only
\* by the push of that position, and only in a call whose save_order wrote
\* the row of that position.
C17_OpenAfterSave ==
    [][ledger_call'.op = "open_position" =>
          /\ (ledger_call'.price = 0 \/ ledger_call'.size = 0)
                => (/\ ledger_call'.ret = "Ok"
                    /\ position' = position
                    /\ trades' = trades)
          /\ position' # position
                => (/\ Len(position') = Len(position) + 1
                    /\ SubSeq(position', 1, Len(position)) = position
                    /\ position'[Len(position')].id = ledger_call'.id
                    /\ position'[Len(position')].size = ledger_call'.size
                    /\ Len(trades') = Len(trades) + 1
                    /\ trades'[Len(trades')].trade_id = ledger_call'.id
                    /\ trades'[Len(trades')].status = "open")]_vars

C17_Witness ==
    /\ ledger_call.op = "open_position"
    /\ ledger_call.size = 0
    /\ ledger_call.price # 0
    /\ ledger_call.ret = "Ok"
    /\ Len(position) = 1
    /\ Len(trades) = 1

\* the positions of a Vec that check_positions is to return, by index
Triggered(positions, current_price, symbol) ==
    {i \in 1..Len(positions) :
        /\ positions[i].symbol = symbol
        /\ \/ /\ positions[i].position_side = "Long"
              /\ \/ current_price <= positions[i].stop_loss
                 \/ current_price >= positions[i].take_profit
           \/ /\ positions[i].position_side = "Short"
              /\ \/ current_price >= positions[i].stop_loss
                 \/ current_price <= positions[i].take_profit}

\* C18: a check_positions call that returns gives exactly the open positions
\* of the symbol whose stop-loss or take-profit the price has reached, each
\* once, with the price and the side, and leaves the Vec as it was.
C18_ExactTriggers ==
    [][(ledger_call'.op = "check_positions" /\ ledger_call'.ret = "Ok") =>
          LET to_close == ledger_call'.to_close
              hits == Triggered(position, ledger_call'.price, ledger_call'.symbol)
          IN  /\ position' = position
              /\ Len(to_close) = Cardinality(hits)
              /\ \A i \in hits :
                    Cardinality({j \in 1..Len(to_close) :
                                    to_close[j] = <<position[i].id,
                                                    ledger_call'.price,
                                                    position[i].position_side>>}) = 1
              /\ \A j \in 1..Len(to_close) :
                    \E i \in hits : to_close[j][1] = position[i].id]_vars

\* a Long at 100 with stop 98 and take-profit 104 and a second position of
\* the other symbol; at 97 only the first is returned
C18_Witness ==
    /\ ledger_call.op = "check_positions"
    /\ ledger_call.price = 97
    /\ Len(position) = 2
    /\ position[1].position_side = "Long"
    /\ position[1].symbol = ledger_call.symbol
    /\ position[2].symbol # ledger_call.symbol
    /\ position[2].position_side = "Long"
    /\ ledger_call.to_close = <<<<position[1].id, 97, "Long">>>>

\* (exit_price - entry_price) * size for Long, (entry_price - exit_price) *
\* size for Short
RealizedPnl(p, exit_price) ==
    IF p.position_side = "Long" THEN (exit_price - p.entry_price) * p.size
    ELSE (p.entry_price - exit_price) * p.size

\* C19: close_positions(id, exit_price) on an open position writes the
\* realized PnL to the row of that id, and afterwards no position of that id
\* is in the Vec while the other positions are as they were.
C19_CloseRecordsPnl ==
    [][(ledger_call'.op = "close_positions"
            /\ ledger_call'.id \in OpenIds(position)) =>
          /\ ledger_call'.id \notin OpenIds(position')
          /\ position' = SelectSeq(position, LAMBDA p : p.id # ledger_call'.id)
          /\ \E i \in 1..Len(position), k \in 1..Len(trades') :
                /\ position[i].id = ledger_call'.id
                /\ trades'[k].trade_id = ledger_call'.id
                /\ trades'[k].status = "closed"
                /\ trades'[k].exit_price = ledger_call'.price
                /\ trades'[k].pnl = RealizedPnl(position[i], ledger_call'.price)]_vars

\* C20: close_positions of an id that is not in the Vec, empty or not,
\* returns an error and leaves the Vec and the table as they were.
C20_CloseUnknownId ==
    [][(ledger_call'.op = "close_positions"
            /\ ledger_call'.id \notin OpenIds(position)) =>
          /\ ledger_call'.ret = "Err"
          /\ position' = position
          /\ trades' = trades]_vars

\* C21: when save_order fails for the position of an entry order that the
\* exchange executed, the position is pushed to the Vec all the same.
C21_TrackedWithoutRow ==
    [][(/\ ledger_call'.op = "execute_entry_order"
        /\ ledger_call'.size > 0
        /\ OrderSent(ledger_call'.sent)
        /\ ledger_call'.ret = "Err")
          => (/\ Len(position') = Len(position) + 1
              /\ position'[Len(position')].id = ledger_call'.id)]_vars

\* ------------------------------------------------------------ sizing claim
\* C22: the size returned is (balance * risk fraction) / |entry_price -
\* stop_loss| when the two prices differ and 0 when they are equal, and is
\* not negative for a balance that is not negative.
C22_SizeFormula ==
    sizing.fn # "none" =>
        LET distance == Abs(sizing.entry_price - sizing.stop_loss) IN
        /\ distance = 0 => sizing.ret = 0
        /\ distance # 0 =>
              sizing.ret * distance * 100
                  = sizing.account_balance * sizing.risk_per_trade
        /\ sizing.account_balance >= 0 => sizing.ret >= 0

\* -------------------------------------------------------------- grid claims
\* C23: a grid call on a filled order sends exactly one replacement, on the
\* opposite side of the order, at level * 1.01 for a filled Buy and level *
\* 0.99 for a filled Sell; a call on an order that is not filled sends none.
C23_OppositeReplacement ==
    [][grid_call'.n = grid_call.n + 1 =>
          LET c == grid_call' IN
          /\ (c.status \in {"filled", "Filled"} /\ c.side # "")
                => (/\ Len(c.sent) = 1
                    /\ c.sent[1].side = opposite(c.side)
                    /\ c.sent[1].price = IF c.side = "Buy"
                                          THEN (c.level * 101) \div 100
                                          ELSE (c.level * 99) \div 100)
          /\ c.status \notin {"filled", "Filled"} => c.sent = <<>>]_vars

\* C24: when the loop sees the trend leave SideChop for UpTrend or DownTrend,
\* a cancel request goes out for every open grid order under that order's own
\* id and the tracked set is empty afterwards; and while the trend is UpTrend
\* or DownTrend no order is placed.
C24_TrendCancelsGrid ==
    [][/\ (/\ engine_call'.op = "trading_loop"
           /\ engine_call'.n = engine_call.n + 1
           /\ last_trend = "SideChop"
           /\ bot_state.trend \in {"UpTrend", "DownTrend"})
          => /\ \A i \in 1..Len(bot_state.open_orders) :
                  bot_state.open_orders[i].status = "New"
                     => \E j \in (Len(order_tx) + 1)..Len(order_tx') :
                            order_tx'[j].id = bot_state.open_orders[i].client_oid
             /\ bot_state'.open_orders = <<>>
       /\ bot_state.trend \in {"UpTrend", "DownTrend"} => placed' = placed]_vars

\* ------------------------------------------------------------- trend claims
\* the EMAs and the ATR maintained over the candles: set by the first candle,
\* moved by their alpha by every later one
RECURSIVE Maintained(_, _)
Maintained(self, log) ==
    IF Len(log) = 1 THEN update_first(self, log[1])
    ELSE update_next(Maintained(self, SubSeq(log, 1, Len(log) - 1)), log[Len(log)])

\* C25: update returns UpTrend exactly when fastEMA - slowEMA > k x ATR,
\* DownTrend exactly when fastEMA - slowEMA < -k x ATR and SideChop otherwise,
\* for the EMAs and the ATR updated with the current candle.
C25_TrendRule ==
    trend_call.n > 0 =>
        LET m == Maintained(TrendDetector_new(detector.fast_period,
                                              detector.slow_period,
                                              detector.atr_period,
                                              detector.k_atr), candle_log)
            diff == m.ema_fast - m.ema_slow
        IN  /\ trend_call.trend = "UpTrend" <=> diff * 10 > m.k_atr * m.atr
            /\ trend_call.trend = "DownTrend" <=> diff * 10 < -(m.k_atr * m.atr)
            /\ trend_call.trend = "SideChop"
                  <=> (/\ diff * 10 <= m.k_atr * m.atr
                       /\ diff * 10 >= -(m.k_atr * m.atr))

\* ------------------------------------------------------------ signal claims
\* C26: generate_signal takes the imbalance of the bid and ask notional
\* (price x quantity) of the top depth levels and returns Buy exactly when
\* imbalance > +threshold and price > EMA, Sell exactly when imbalance <
\* -threshold and price < EMA, and Hold otherwise.
C26_SignalRule ==
    signal_call.fn # "none" =>
        LET c == signal_call
            bid_notional == sum_notional(take(c.market.bids, c.depth))
            ask_notional == sum_notional(take(c.market.asks, c.depth))
            buy == /\ imbalance_above(bid_notional, ask_notional,
                                      c.self.imbalance_threshold)
                   /\ c.market.price > c.self.ema_value
            sell == /\ imbalance_below(bid_notional, ask_notional,
                                       -c.self.imbalance_threshold)
                    /\ c.market.price < c.self.ema_value
        IN  c.ret = IF buy THEN "BUY" ELSE IF sell THEN "SELL" ELSE "HOLD"

\* C27: in the decision path, a Hold signal places no order; while a long
\* position is held a Buy signal places no order and leaves the position as
\* it is; while flat a Buy and a Sell signal both place an order.
C27_ActionableSignals ==
    decision.signal \in {"BUY", "SELL", "HOLD"} =>
        /\ decision.signal = "HOLD" => decision.placed = <<>>
        /\ (decision.position > 0 /\ decision.signal = "BUY")
              => (/\ decision.placed = <<>>
                  /\ bt_account.current_position = decision.position)
        /\ (decision.position = 0 /\ decision.signal \in {"BUY", "SELL"})
              => decision.placed # <<>>

\* ---------------------------------------------------- feed claims, continued
\* C28: the task forwards an inbound depth event exactly when its final id is
\* above last_updated_id and its first id is at most last_updated_id + 1, and
\* the update it forwards carries the bid and ask changes of the event.
C28_ForwardRule ==
    [][\A evt \in FeedEvents :
          WsText(evt) =>
             /\ Sent <=> (/\ evt.final_update_id > last_updated_id
                          /\ evt.first_update_id <= last_updated_id + 1)
             /\ Sent => (/\ chan'[Len(chan')].bids = evt.bids
                         /\ chan'[Len(chan')].asks = evt.asks)]_vars

RECURSIVE Pow2(_)
Pow2(k) == IF k = 0 THEN 1 ELSE 2 * Pow2(k - 1)

\* C29: the floor of the delay is strictly below its ceiling; after the k-th
\* counted failure the delay is min(floor x 2^k, ceiling), so it is above the
\* floor after the first one; and it never exceeds the ceiling.
C29_ExponentialBackoff ==
    /\ RetrySecs < RetryCapSecs
    /\ retry_interval <= RetryCapSecs
    /\ fpc # "done" => retry_interval = Min(RetrySecs * Pow2(attempt), RetryCapSecs)
    /\ (fpc # "done" /\ attempt >= 1) => retry_interval > RetrySecs

\* C30: attempt does not go up at the end of a cycle that has forwarded an
\* update; and once attempt is above MaxAttempt the task has stopped and stays
\* stopped.
C30_AttemptCountsFailures ==
    [][/\ (/\ fpc = "streaming"
           /\ chan # <<>>
           /\ chan[Len(chan)].kind = "Update") => attempt' = attempt
       /\ attempt > MaxAttempt => (fpc = "done" /\ fpc' = "done")]_vars

\* ---------------------------------------------------- grid claims, continued
\* C31: while the orders of a ladder are outstanding, a further SideChop
\* candle gives no order to place_order; at most one ladder is placed while
\* the trend stays SideChop.
C31_OneLadder ==
    [][(/\ ws_call'.n = ws_call.n + 1
        /\ ws_call'.trend = "SideChop"
        /\ ws_orders # {}) => ws_call'.sent = 0]_vars

\* ------------------------------------------------------------- lock claims
\* C33: a close_positions call returns, Ok or Err: it is never left waiting
\* in has_positions for a read guard of the lock whose write guard it holds.
C33_CloseReturns ==
    ledger_call.op = "close_positions" =>
        /\ ledger_call.ret \in {"Ok", "Err"}
        /\ rw = "free"

\* the locks around the shared state, and the calls that go to the network
\* or the database
SharedStateLocks == {"position", "analyzer", "ws_client", "state"}
NetworkCalls == {"connect", "place_order", "save_signal", "close_order"}

\* C32: while a task awaits a network or database call it holds no guard of
\* a lock around the shared state.
C32_NoLockAcrossIo ==
    io_call.call \in NetworkCalls => io_call.locks \cap SharedStateLocks = {}

\* the order processor waits for the write guard of the state, and the update
\* processor, which holds it, waits for room in the order channel
OrderBlocked == proc_pc.order = "state_write" /\ state_lock # "free"
UpdateBlocked == proc_pc.update = "send" /\ Len(order_tx) >= order_capacity

C35_LoopReadsCandles ==
    [][(/\ engine_call'.op = "trading_loop"
        /\ engine_call'.n = engine_call.n + 1
        /\ bot_state.trend = "SideChop"
        /\ bot_state.open_orders = <<>>
        /\ ws_client = "write")
          => /\ loop_pc' = "running"
             /\ engine_call'.ret = "sleep"]_vars

\* ---------------------------------------------------------- candle claims
\* C36: a process_candle that returns on a candle for which the analyzer
\* yields a Buy or Sell of confidence 0.70 or more has published a signal
\* and attempted an entry order, whether or not a position was to close.
C36_SignalActedOn ==
    [][(/\ candle_ret'.returned = candle_ret.returned + 1
        /\ candle_ret'.ret = "Ok"
        /\ candle_ret'.signal_opt # <<>>)
          => LET a == candle_ret'.signal_opt[1] IN
             (a.confidence >= confidence_threshold /\ a.action \in {"Buy", "Sell"})
                => (candle_ret'.published > 0 /\ candle_ret'.entered > 0)]_vars

\* C37: every position the engine opened from a signal is Long for a Buy and
\* Short for a Sell, with its stop-loss and take-profit on the sides of the
\* entry price that belong to that side.
C37_SideFromSignal ==
    \A i \in 1..Len(entry_log) :
       LET e == entry_log[i] IN
       e.opened =>
          /\ e.action = "Buy" =>
                /\ e.p.position_side = "Long"
                /\ e.p.stop_loss < e.p.entry_price
                /\ e.p.take_profit > e.p.entry_price
          /\ e.action = "Sell" =>
                /\ e.p.position_side = "Short"
                /\ e.p.stop_loss > e.p.entry_price
                /\ e.p.take_profit < e.p.entry_price

\* C38: no position has two exit orders accepted by the exchange or two
\* closes recorded, and a position leaves the Vec only after its exit order
\* was accepted.
C38_OneExit ==
    /\ \A i, j \in 1..Len(exit_log) :
          (exit_log[i].ok /\ exit_log[j].ok /\ exit_log[i].id = exit_log[j].id)
             => i = j
    /\ \A k \in 1..Len(trades) :
          (trades[k].status = "closed")
             => /\ \E i \in 1..Len(exit_log) :
                      exit_log[i].ok /\ exit_log[i].id = trades[k].trade_id
                /\ \A i \in 1..Len(position) :
                      position[i].id # trades[k].trade_id

\* ------------------------------------------------- trend claims, continued
\* C39: after the first update the detector is marked initialized, and after
\* every update its EMAs and ATR are those of a detector initialized from the
\* first candle and moved by its alphas by every later one.
C39_StateCarried ==
    trend_call.n > 0 =>
        LET m == Maintained(TrendDetector_new(detector.fast_period,
                                              detector.slow_period,
                                              detector.atr_period,
                                              detector.k_atr), candle_log)
        IN  /\ detector.initialized
            /\ detector.ema_fast = m.ema_fast
            /\ detector.ema_slow = m.ema_slow
            /\ detector.atr = m.atr

\* ------------------------------------------------------- stop-loss claims
\* the price is across the stop of the account
across_stop(account, price, pct) ==
    \/ /\ account.current_position > 0
       /\ price * 100 <= account.entry_price * (100 - pct)
    \/ /\ account.current_position < 0
       /\ price * 100 >= account.entry_price * (100 + pct)

\* C40: check_stop_loss returns true exactly when the price is across the
\* stop of a long or short account and never for a flat one, and an iteration
\* takes the stop-loss branch only then.
C40_StopOnlyWhenCrossed ==
    [][/\ stop_call'.n = stop_call.n + 1 =>
             (stop_call'.ret <=> across_stop(stop_call'.account,
                                             stop_call'.price, stop_call'.pct))
       /\ (decision' # decision /\ decision'.signal = "stop_loss")
             => across_stop(stop_call'.account, stop_call'.price,
                            stop_call'.pct)]_vars

====
